---------------------------- MODULE Spec2Model ----------------------------
(***************************************************************************)
(* Model of the online retail simulator: the rule-based generators, the    *)
(* enrichment assignment and effect functions, and the job persistence     *)
(* layer.                                                                  *)
(*                                                                         *)
(* Money is held in cents (a price of 12.34 is 1234); a value that Python  *)
(* rounds with round(x, 2) is first computed in mills (tenths of a cent)   *)
(* and then rounded to cents.  Calendar dates are day ordinals counted     *)
(* from 2024-01-01 (day 1); FormatDate / ParseDate convert to and from the *)
(* "YYYY-MM-DD" text the sale rows carry.  Effect sizes and fractions are  *)
(* hundredths (0.5 is 50).  The module-level Mersenne Twister of Python's  *)
(* random module is a congruential generator of RngMod states.             *)
(***************************************************************************)
EXTENDS Integers, Sequences, FiniteSets, TLC

\* ------------------------------------------------------------------ bounds
RngMod == 16
MaxProducts == 2
MaxDay == 2

\* ----------------------------------------------------- module-level random
\* seed=None: the generator is not re-seeded.
NoSeed == -1

SeedValues == {1, 2}
Seeds == SeedValues \cup {NoSeed}

\* random.seed(seed): the state after seeding depends on the seed alone.
SeedState(seed) == (7 * seed + 3) % RngMod

\* (mutation) the seed is ignored: the stream continues where it was
ReseedIgnored(seed, r) == r

\* `if seed is not None: random.seed(seed)`
Reseed(seed, r) == IF seed # NoSeed THEN SeedState(seed) ELSE r

\* One primitive draw: the variate is the state, the state advances.
NextRng(r) == (5 * r + 1) % RngMod

\* random.random() < p, p in hundredths
RandomBelow(r, p) == r * 100 < p * RngMod

\* random.choice(seq): index of the chosen element (1-based)
ChoiceIndex(r, n) == ((r * n) \div RngMod) + 1

\* round(x, 2) of a value given in mills: nearest cent, ties to the even cent
Round2(mills) ==
  LET c == mills \div 10
      m == mills % 10
  IN  IF m < 5 THEN c
      ELSE IF m > 5 THEN c + 1
      ELSE IF c % 2 = 0 THEN c ELSE c + 1

\* random.uniform(a, b) = a + (b - a) * random(), in mills (a, b in units)
Uniform(r, a, b) == a * 1000 + (((b - a) * 1000 * r) \div RngMod)

\* random.choices([1,2,3,4,5], weights=[50,25,15,7,3])[0]:
\* bisect of random() * total in the cumulative weights
CumWeights == <<50, 75, 90, 97, 100>>

Choices(r) ==
  LET x100 == r * 100   \* random() * total, scaled by RngMod
  IN  CHOOSE q \in 1..5 :
        /\ x100 < CumWeights[q] * RngMod
        /\ \A j \in 1..(q - 1) : ~(x100 < CumWeights[j] * RngMod)

\* ------------------------------------------------------------ product data
CATEGORIES ==
  << "Electronics", "Clothing", "Home & Garden", "Books",
     "Sports & Outdoors", "Toys & Games", "Food & Beverage", "Health & Beauty" >>

PRODUCT_NAMES ==
  [ c \in 1..8 |->
      CASE c = 1 -> <<"Laptop", "Smartphone", "Tablet", "Headphones", "Monitor", "Keyboard", "Mouse", "Webcam">>
        [] c = 2 -> <<"T-Shirt", "Jeans", "Jacket", "Sweater", "Dress", "Shorts", "Hoodie", "Socks">>
        [] c = 3 -> <<"Chair", "Table", "Lamp", "Rug", "Curtains", "Vase", "Mirror", "Clock">>
        [] c = 4 -> <<"Novel", "Textbook", "Cookbook", "Biography", "Comic", "Magazine", "Journal", "Guide">>
        [] c = 5 -> <<"Ball", "Bike", "Tent", "Backpack", "Yoga Mat", "Weights", "Running Shoes", "Water Bottle">>
        [] c = 6 -> <<"Board Game", "Puzzle", "Action Figure", "Doll", "Building Blocks", "Card Game", "Stuffed Animal", "Remote Car">>
        [] c = 7 -> <<"Coffee", "Tea", "Snacks", "Chocolate", "Juice", "Cookies", "Nuts", "Energy Bar">>
        [] c = 8 -> <<"Shampoo", "Lotion", "Soap", "Toothpaste", "Perfume", "Makeup", "Vitamins", "Sunscreen">> ]

PRICE_RANGES ==
  << <<50, 1500>>, <<15, 200>>, <<20, 500>>, <<10, 60>>,
     <<15, 300>>, <<10, 100>>, <<5, 50>>, <<8, 80>> >>

\* f"{k:0{w}d}": the decimal digits of k, zero-padded to at least w digits
RECURSIVE Digits(_)
Digits(k) == IF k < 10 THEN <<k>> ELSE Append(Digits(k \div 10), k % 10)

ZeroPad(k, w) ==
  LET d == Digits(k)
  IN  IF Len(d) >= w THEN d ELSE [i \in 1..(w - Len(d)) |-> 0] \o d

\* Text is a sequence of character codes: "0" is 48, "-" is 45, "A" is 65.
DigitCodes(ds) == [i \in 1..Len(ds) |-> 48 + ds[i]]

\* Python's < on str: lexicographic by character code
StrLess(a, b) ==
  \/ \E i \in 1..Len(a) :
       /\ i <= Len(b)
       /\ \A j \in 1..(i - 1) : a[j] = b[j]
       /\ a[i] < b[i]
  \/ /\ Len(a) < Len(b)
     /\ \A j \in 1..Len(a) : a[j] = b[j]

\* (mutation) f"PROD{i:04d}": the ids start at PROD0000
ProductIdFromZero(i) == <<80, 82, 79, 68>> \o DigitCodes(ZeroPad(i - 1, 4))

\* f"PROD{i+1:04d}"
ProductId(i) == <<80, 82, 79, 68>> \o DigitCodes(ZeroPad(i, 4))

\* f"TXN{transaction_counter:06d}"
TransactionId(k) == <<84, 88, 78>> \o DigitCodes(ZeroPad(k, 6))

\* One iteration of the loop of generate_product_data: three draws.
MakeProduct(i, r) ==
  LET c  == ChoiceIndex(r, Len(CATEGORIES))
      r1 == NextRng(r)
      nm == ChoiceIndex(r1, Len(PRODUCT_NAMES[c]))
      r2 == NextRng(r1)
      pr == Round2(Uniform(r2, PRICE_RANGES[c][1], PRICE_RANGES[c][2]))
  IN  [ product |-> [ product_id |-> ProductId(i),
                      name       |-> PRODUCT_NAMES[c][nm],
                      category   |-> CATEGORIES[c],
                      price      |-> pr ],
        rng |-> NextRng(r2) ]

RECURSIVE ProductLoop(_, _, _, _)
ProductLoop(i, n, acc, r) ==
  IF i > n THEN [products |-> acc, rng |-> r]
  ELSE LET s == MakeProduct(i, r)
       IN  ProductLoop(i + 1, n, Append(acc, s.product), s.rng)

\* generate_product_data(n_products, seed) run from random state r
generate_product_data(n, seed, r) == ProductLoop(1, n, <<>>, Reseed(seed, r))

\* ------------------------------------------------------------------- dates
\* int(text) of a run of digit characters
RECURSIVE NumberOf(_)
NumberOf(t) ==
  IF Len(t) = 0 THEN 0
  ELSE 10 * NumberOf(SubSeq(t, 1, Len(t) - 1)) + (t[Len(t)] - 48)

\* strftime("%Y-%m-%d") of the day ordinal (January and February 2024)
FormatDate(day) ==
  LET m == IF day <= 31 THEN 1 ELSE 2
      d == IF day <= 31 THEN day ELSE day - 31
  IN  DigitCodes(ZeroPad(2024, 4)) \o <<45>> \o DigitCodes(ZeroPad(m, 2))
        \o <<45>> \o DigitCodes(ZeroPad(d, 2))

\* datetime.strptime(text, "%Y-%m-%d"), as a day ordinal
ParseDate(t) ==
  LET m == NumberOf(SubSeq(t, 6, 7))
      d == NumberOf(SubSeq(t, 9, 10))
  IN  IF m = 1 THEN d ELSE 31 + d

\* -------------------------------------------------------------- sales data
\* The body of `for product in products` for one product on one day.
\* st = [sales, counter, rng]
SaleStep(st, product, day, p) ==
  IF RandomBelow(st.rng, p)
  THEN LET r1  == NextRng(st.rng)
           q   == Choices(r1)
           cnt == st.counter + 1
       IN  [ sales |-> Append(st.sales,
                        [ transaction_id |-> TransactionId(cnt),
                          product_id     |-> product.product_id,
                          product_name   |-> product.name,
                          category       |-> product.category,
                          quantity       |-> q,
                          unit_price     |-> product.price,
                          revenue        |-> Round2(product.price * q * 10),
                          date           |-> FormatDate(day) ]),
             counter |-> cnt,
             rng |-> NextRng(r1) ]
  ELSE [sales |-> st.sales, counter |-> st.counter, rng |-> NextRng(st.rng)]

RECURSIVE SalesProducts(_, _, _, _, _)
SalesProducts(st, prods, i, day, p) ==
  IF i > Len(prods) THEN st
  ELSE SalesProducts(SaleStep(st, prods[i], day, p), prods, i + 1, day, p)

\* (mutation) the day loop runs one day past date_end
RECURSIVE SalesDaysPastEnd(_, _, _, _, _)
SalesDaysPastEnd(st, prods, day, last, p) ==
  IF day > last + 1 THEN st
  ELSE SalesDaysPastEnd(SalesProducts(st, prods, 1, day, p), prods, day + 1, last, p)

RECURSIVE SalesDays(_, _, _, _, _)
SalesDays(st, prods, day, last, p) ==
  IF day > last THEN st
  ELSE SalesDays(SalesProducts(st, prods, 1, day, p), prods, day + 1, last, p)

\* generate_sales_data(products, date_start, date_end, seed, sale_probability)
\* run from random state r; the dates are given as text
generate_sales_data(prods, date_start, date_end, seed, p, r) ==
  LET st == SalesDays([sales |-> <<>>, counter |-> 0, rng |-> Reseed(seed, r)],
                      prods, ParseDate(date_start), ParseDate(date_end), p)
  IN  [sales |-> st.sales, rng |-> st.rng]

\* simulate_metrics_rule_based: the body of `for _, prod in
\* product_characteristics.iterrows()` for one product on one day.
\* st = [rows, rng]
MetricsStep(st, prod, day, p) ==
  LET sale_occurred == RandomBelow(st.rng, p)
      r1       == NextRng(st.rng)
      quantity == IF sale_occurred THEN Choices(r1) ELSE 0
      revenue  == IF sale_occurred THEN Round2(prod.price * quantity * 10) ELSE 0
  IN  [ rows |-> Append(st.rows,
                   [ product_id |-> prod.product_id,
                     name       |-> prod.name,
                     category   |-> prod.category,
                     price      |-> prod.price,
                     date       |-> FormatDate(day),
                     quantity   |-> quantity,
                     revenue    |-> revenue ]),
        rng |-> IF sale_occurred THEN NextRng(r1) ELSE r1 ]

RECURSIVE MetricsProducts(_, _, _, _, _)
MetricsProducts(st, prods, i, day, p) ==
  IF i > Len(prods) THEN st
  ELSE MetricsProducts(MetricsStep(st, prods[i], day, p), prods, i + 1, day, p)

RECURSIVE MetricsDays(_, _, _, _, _)
MetricsDays(st, prods, day, last, p) ==
  IF day > last THEN st
  ELSE MetricsDays(MetricsProducts(st, prods, 1, day, p), prods, day + 1, last, p)

\* simulate_metrics_rule_based(product_characteristics, config) with
\* config["RULE"]["METRICS"]["PARAMS"] = (date_start, date_end, sale_prob, seed),
\* run from random state r
simulate_metrics_rule_based(prods, date_start, date_end, seed, p, r) ==
  LET st == MetricsDays([rows |-> <<>>, rng |-> Reseed(seed, r)],
                        prods, ParseDate(date_start), ParseDate(date_end), p)
  IN  [rows |-> st.rows, rng |-> st.rng]


\* ------------------------------------------------------------ effect specs
\* Python values: str (as character codes), float (in hundredths), dict,
\* None and list
PyStr(s) == [t |-> "str", s |-> s]
PyFloat(x) == [t |-> "float", x |-> x]
PyDict(items) == [t |-> "dict", items |-> items]
PyNone == [t |-> "NoneType"]
PyList == [t |-> "list"]

\* "enrichment_impact_library"
EnrichmentImpactLibrary ==
  <<101, 110, 114, 105, 99, 104, 109, 101, 110, 116, 95, 105, 109, 112, 97, 99, 116, 95, 108, 105, 98, 114, 97, 114, 121>>

\* str.strip() removes these
Whitespace == {32, 9, 10, 13}

\* (mutation) strip() removes nothing
StripKeeping(s) == s

\* str.strip()
RECURSIVE Strip(_)
Strip(s) ==
  IF Len(s) = 0 THEN s
  ELSE IF s[1] \in Whitespace THEN Strip(Tail(s))
  ELSE IF s[Len(s)] \in Whitespace THEN Strip(SubSeq(s, 1, Len(s) - 1))
  ELSE s

\* s.find(c) + 1: the position of the first c, 0 if there is none
Find(s, c) ==
  IF \E i \in 1..Len(s) : s[i] = c
  THEN CHOOSE i \in 1..Len(s) : s[i] = c /\ \A j \in 1..(i - 1) : s[j] # c
  ELSE 0

IsDigits(s) == Len(s) > 0 /\ \A i \in 1..Len(s) : s[i] \in 48..57

\* float(text) for decimal literals of at most two decimals: surrounding
\* whitespace and a sign are accepted; anything else raises ValueError.
\* The value is in hundredths.
float(text) ==
  LET s    == Strip(text)
      neg  == Len(s) > 0 /\ s[1] = 45
      body == IF Len(s) > 0 /\ s[1] \in {43, 45} THEN Tail(s) ELSE s
      dot  == Find(body, 46)
      ip   == IF dot = 0 THEN body ELSE SubSeq(body, 1, dot - 1)
      fp   == IF dot = 0 THEN <<>> ELSE SubSeq(body, dot + 1, Len(body))
      ok   == /\ ip = <<>> \/ IsDigits(ip)
              /\ fp = <<>> \/ (IsDigits(fp) /\ Len(fp) <= 2)
              /\ ip # <<>> \/ fp # <<>>
      frac == IF Len(fp) = 0 THEN 0
              ELSE IF Len(fp) = 1 THEN 10 * NumberOf(fp) ELSE NumberOf(fp)
      mag  == 100 * NumberOf(ip) + frac
  IN  IF ok THEN [ok |-> TRUE, x |-> IF neg THEN -mag ELSE mag]
      ELSE [ok |-> FALSE, x |-> 0]

\* (mutation) dict.get without the default
DictGetNone(items, key, default) ==
  IF key \in DOMAIN items THEN items[key] ELSE PyNone

\* dict.get(key, default)
DictGet(items, key, default) ==
  IF key \in DOMAIN items THEN items[key] ELSE default

\* `not value` for the values a function name can have
Falsy(value) == value.t = "NoneType" \/ (value.t = "str" /\ value.s = <<>>)

ParseFailure(error) ==
  [ok |-> FALSE, error |-> error, module |-> PyNone, function |-> PyNone, params |-> PyNone]

ParseResult(module_name, function_name, params) ==
  [ok |-> TRUE, error |-> "", module |-> module_name, function |-> function_name,
   params |-> params]

\* parse_effect_spec(effect_spec)
parse_effect_spec(effect_spec) ==
  IF effect_spec.t = "str"
  THEN LET colon == Find(effect_spec.s, 58)
       IN  IF colon # 0
           THEN LET function_name   == SubSeq(effect_spec.s, 1, colon - 1)
                    effect_size_str == SubSeq(effect_spec.s, colon + 1, Len(effect_spec.s))
                    size            == float(effect_size_str)
                IN  IF size.ok
                    THEN ParseResult(PyStr(EnrichmentImpactLibrary), PyStr(Strip(function_name)),
                                PyDict([effect_size |-> PyFloat(size.x)]))
                    ELSE ParseFailure("ValueError")
           ELSE ParseResult(PyStr(EnrichmentImpactLibrary), PyStr(Strip(effect_spec.s)),
                       PyDict(<<>>))
  ELSE IF effect_spec.t = "dict"
  THEN LET module_name   == DictGet(effect_spec.items, "module", PyStr(EnrichmentImpactLibrary))
           function_name == DictGet(effect_spec.items, "function", PyNone)
           params        == DictGet(effect_spec.items, "params", PyDict(<<>>))
       IN  IF Falsy(function_name)
           THEN ParseFailure("ValueError")
           ELSE ParseResult(module_name, function_name, params)
  ELSE ParseFailure("ValueError")

\* ------------------------------------------------------------ configuration
\* text.split("-")
RECURSIVE SplitHyphen(_)
SplitHyphen(text) ==
  LET h == Find(text, 45)
  IN  IF h = 0 THEN <<text>>
      ELSE <<SubSeq(text, 1, h - 1)>> \o SplitHyphen(SubSeq(text, h + 1, Len(text)))

\* datetime.strptime(text, "%Y-%m-%d") as a day ordinal of January and
\* February 2024: %Y takes four digits, %m and %d take one or two
strptime(text) ==
  LET parts == SplitHyphen(text)
      wellformed ==
        /\ Len(parts) = 3
        /\ IsDigits(parts[1]) /\ Len(parts[1]) = 4
        /\ IsDigits(parts[2]) /\ Len(parts[2]) \in 1..2
        /\ IsDigits(parts[3]) /\ Len(parts[3]) \in 1..2
      m == NumberOf(parts[2])
      d == NumberOf(parts[3])
  IN  IF wellformed /\ m \in 1..2 /\ d \in 1..31
      THEN [ok |-> TRUE, day |-> IF m = 1 THEN d ELSE 31 + d]
      ELSE [ok |-> FALSE, day |-> 0]

Rejected(message) == [ok |-> FALSE, error |-> "ValueError", message |-> message]
Accepted == [ok |-> TRUE, error |-> "", message |-> ""]

\* (mutation) the upper end of the baseline window is not checked
validate_config_open_ended(config) ==
  IF "BASELINE" \notin DOMAIN config
  THEN Rejected("Configuration must include BASELINE section")
  ELSE LET baseline == config["BASELINE"]
       IN  IF "DATE_START" \notin DOMAIN baseline \/ baseline["DATE_START"] = <<>>
           THEN Rejected("BASELINE.DATE_START is required")
           ELSE IF "DATE_END" \notin DOMAIN baseline \/ baseline["DATE_END"] = <<>>
           THEN Rejected("BASELINE.DATE_END is required")
           ELSE IF /\ "ENRICHMENT" \in DOMAIN config
                   /\ "START_DATE" \in DOMAIN config["ENRICHMENT"]
                   /\ config["ENRICHMENT"]["START_DATE"] # <<>>
                   /\ StrLess(config["ENRICHMENT"]["START_DATE"], baseline["DATE_START"])
           THEN Rejected("ENRICHMENT.START_DATE must be >= BASELINE.DATE_START")
           ELSE Accepted

\* validate_config(config): the dates are compared as text
validate_config(config) ==
  IF "BASELINE" \notin DOMAIN config
  THEN Rejected("Configuration must include BASELINE section")
  ELSE LET baseline == config["BASELINE"]
       IN  IF "DATE_START" \notin DOMAIN baseline \/ baseline["DATE_START"] = <<>>
           THEN Rejected("BASELINE.DATE_START is required")
           ELSE IF "DATE_END" \notin DOMAIN baseline \/ baseline["DATE_END"] = <<>>
           THEN Rejected("BASELINE.DATE_END is required")
           ELSE IF /\ "ENRICHMENT" \in DOMAIN config
                   /\ "START_DATE" \in DOMAIN config["ENRICHMENT"]
                   /\ config["ENRICHMENT"]["START_DATE"] # <<>>
           THEN LET start_date == config["ENRICHMENT"]["START_DATE"]
                IN  IF StrLess(start_date, baseline["DATE_START"])
                    THEN Rejected("ENRICHMENT.START_DATE must be >= BASELINE.DATE_START")
                    ELSE IF StrLess(baseline["DATE_END"], start_date)
                    THEN Rejected("ENRICHMENT.START_DATE must be <= BASELINE.DATE_END")
                    ELSE Accepted
           ELSE Accepted

\* ------------------------------------------------------------- enrichment
\* int(x) of the quotient num / den: truncation toward zero
IntTrunc(num, den) == IF num >= 0 THEN num \div den ELSE -((-num) \div den)

\* (mutation) the size is rounded up instead
NEnrichedCeiling(n, fraction) == (n * fraction + 99) \div 100

\* n_enriched = int(len(products) * fraction), fraction in hundredths
NEnriched(n, fraction) == IntTrunc(n * fraction, 100)

\* (mutation) the size is rounded to the nearest integer instead
NEnrichedRounded(n, fraction) == (n * fraction + 50) \div 100

\* (mutation) sampling with replacement: the pool is never updated
RECURSIVE SampleLoopReplacing(_, _, _, _)
SampleLoopReplacing(st, i, k, n) ==
  IF i >= k THEN st
  ELSE LET j == ChoiceIndex(st.rng, n)
       IN  SampleLoopReplacing([ pool   |-> st.pool,
                                 result |-> Append(st.result, st.pool[j]),
                                 rng    |-> NextRng(st.rng) ],
                               i + 1, k, n)

\* random.sample(range(n), k), pool branch: k draws, each moving the last
\* live pool entry into the slot just taken.  st = [pool, result, rng]
RECURSIVE SampleLoop(_, _, _, _)
SampleLoop(st, i, k, n) ==
  IF i >= k THEN st
  ELSE LET j == ChoiceIndex(st.rng, n - i)
       IN  SampleLoop([ pool   |-> [st.pool EXCEPT ![j] = st.pool[n - i]],
                        result |-> Append(st.result, st.pool[j]),
                        rng    |-> NextRng(st.rng) ],
                      i + 1, k, n)

\* random.sample(range(n), k): ValueError unless 0 <= k <= n
Sample(n, k, r) ==
  IF k < 0 \/ k > n
  THEN [ok |-> FALSE, result |-> <<>>, rng |-> r]
  ELSE LET st == SampleLoop([pool |-> [i \in 1..n |-> i - 1], result |-> <<>>, rng |-> r],
                            0, k, n)
       IN  [ok |-> TRUE, result |-> st.result, rng |-> st.rng]

SeqRange(s) == {s[i] : i \in 1..Len(s)}

\* product['enriched'] = flag, on the copy
WithEnriched(product, flag) == [enriched |-> flag] @@ product

\* The two lists of assign_enrichment: `products`, the caller's, and
\* `enriched_products`; `shared` tells whether the records of the second are
\* the very records of the first.

\* (mutation) enriched_products = list(products): a new list of the same records
ShallowCopy(prods) ==
  [products |-> prods, enriched_products |-> prods, shared |-> TRUE]

\* enriched_products = copy.deepcopy(products)
DeepCopy(prods) ==
  [products |-> prods, enriched_products |-> prods, shared |-> FALSE]

\* for i, product in enumerate(enriched_products):
\*     product['enriched'] = i in enriched_indices
TagEnriched(lists, enriched_indices) ==
  LET tagged == [i \in 1..Len(lists.enriched_products) |->
                   WithEnriched(lists.enriched_products[i], (i - 1) \in enriched_indices)]
  IN  [ products |-> IF lists.shared THEN tagged ELSE lists.products,
        enriched_products |-> tagged,
        shared |-> lists.shared ]

\* (mutation) the `random.seed(seed)` of assign_enrichment is dropped
assign_enrichment_unseeded(prods, fraction, seed, r) ==
  LET s == Sample(Len(prods), NEnriched(Len(prods), fraction), r)
      tagged == TagEnriched(DeepCopy(prods), SeqRange(s.result))
  IN  [ ok |-> s.ok, error |-> IF s.ok THEN "" ELSE "ValueError",
        enriched_products |-> IF s.ok THEN tagged.enriched_products ELSE <<>>,
        products |-> IF s.ok THEN tagged.products ELSE prods,
        indices |-> s.result,
        rng |-> s.rng ]

\* assign_enrichment(products, fraction, seed) run from random state r:
\* [ok, error, enriched_products, products, indices, rng], where products is
\* the caller's list as the call leaves it
assign_enrichment(prods, fraction, seed, r) ==
  LET r0    == Reseed(seed, r)
      lists == DeepCopy(prods)
      k     == NEnriched(Len(prods), fraction)
      s     == Sample(Len(prods), k, r0)
  IN  IF ~s.ok
      THEN [ ok |-> FALSE, error |-> "ValueError", enriched_products |-> <<>>,
             products |-> lists.products, indices |-> <<>>, rng |-> s.rng ]
      ELSE LET tagged == TagEnriched(lists, SeqRange(s.result))
           IN  [ ok |-> TRUE, error |-> "",
                 enriched_products |-> tagged.enriched_products,
                 products |-> tagged.products,
                 indices |-> s.result,
                 rng |-> s.rng ]

\* ------------------------------------------------------- effect functions
\* effect_size: float = 0.5
DefaultEffectSize == 50

\* (mutation) the new quantity is stored without recomputing the revenue
BoostedStaleRevenue(sale, num, den) ==
  [sale EXCEPT !.quantity = IntTrunc(sale.quantity * num, den)]

\* sale['quantity'] = int(original_quantity * (num / den))
\* sale['revenue'] = round(sale['quantity'] * sale['unit_price'], 2)
Boosted(sale, num, den) ==
  LET q == IntTrunc(sale.quantity * num, den)
  IN  [sale EXCEPT !.quantity = q, !.revenue = Round2(q * sale.unit_price * 10)]

\* (sale_date - start_date).days
DaysSince(sale, enrichment_start) == ParseDate(sale.date) - ParseDate(enrichment_start)

\* (mutation) the cutover day itself is treated as before the cutover
OnOrAfterStrict(sale, enrichment_start) == DaysSince(sale, enrichment_start) > 0

\* sale_date >= start_date
OnOrAfter(sale, enrichment_start) == DaysSince(sale, enrichment_start) >= 0

\* quantity_boost(sale, enrichment_start, effect_size): [sale, applied, adjusted];
\* adjusted is the effect applied to the quantity, in 1/700
quantity_boost(sale, enrichment_start, effect_size) ==
  IF OnOrAfter(sale, enrichment_start)
  THEN [ sale |-> Boosted(sale, 100 + effect_size, 100), applied |-> TRUE,
         adjusted |-> 7 * effect_size ]
  ELSE [sale |-> sale, applied |-> FALSE, adjusted |-> 0]

\* probability_boost delegates to quantity_boost
probability_boost(sale, enrichment_start, effect_size) ==
  quantity_boost(sale, enrichment_start, effect_size)

\* (mutation) the ramp is not capped at the full effect
RampFactorUncapped(days) == days

\* ramp_factor = min(1.0, days_since_start / 7.0), in sevenths
RampFactor(days) == IF days < 7 THEN days ELSE 7

\* adjusted_effect = effect_size * ramp_factor, in 1/700
AdjustedEffect(effect_size, days) == effect_size * RampFactor(days)

\* combined_boost(sale, enrichment_start, effect_size): [sale, applied, adjusted]
combined_boost(sale, enrichment_start, effect_size) ==
  IF OnOrAfter(sale, enrichment_start)
  THEN LET adj == AdjustedEffect(effect_size, DaysSince(sale, enrichment_start))
       IN  [sale |-> Boosted(sale, 700 + adj, 700), applied |-> TRUE, adjusted |-> adj]
  ELSE [sale |-> sale, applied |-> FALSE, adjusted |-> 0]

EffectNames == {"quantity_boost", "probability_boost", "combined_boost"}

\* **kwargs: <<>> leaves effect_size at its default, <<e>> passes effect_size=e
EffectSizeOf(kwargs) == IF Len(kwargs) = 0 THEN DefaultEffectSize ELSE kwargs[1]

\* effect_function(sale_copy, enrichment_start=enrichment_start, **kwargs)
CallEffect(name, sale, enrichment_start, kwargs) ==
  CASE name = "quantity_boost" ->
         quantity_boost(sale, enrichment_start, EffectSizeOf(kwargs))
    [] name = "probability_boost" ->
         probability_boost(sale, enrichment_start, EffectSizeOf(kwargs))
    [] name = "combined_boost" ->
         combined_boost(sale, enrichment_start, EffectSizeOf(kwargs))

\* p.get('enriched', False)
IsEnriched(product) == IF "enriched" \in DOMAIN product THEN product.enriched ELSE FALSE

\* enriched_ids = {p['product_id'] for p in enriched_products if p.get('enriched', False)}
EnrichedIds(eps) ==
  { eps[i].product_id : i \in { j \in 1..Len(eps) : IsEnriched(eps[j]) } }

\* (mutation) sale_copy = sale: the row handed on is the caller's own
SameSale(sale) == [row |-> sale, own |-> FALSE]

\* sale_copy = copy.deepcopy(sale): a row of its own with the same fields
DeepCopySale(sale) == [row |-> sale, own |-> TRUE]

\* the caller's row after the effect function has written into the row it
\* was given (the library's functions assign sale['quantity'] and
\* sale['revenue'] in place and return the same row)
RowAfterEffect(sale, sale_copy, result) == IF sale_copy.own THEN sale ELSE result

\* (mutation) every sale is handed to the effect function
ApplyStepUnfiltered(st, i, sale, ids, enrichment_start, name, kwargs) ==
  LET sale_copy == DeepCopySale(sale)
      r == CallEffect(name, sale_copy.row, enrichment_start, kwargs)
  IN  [ treated_sales |-> Append(st.treated_sales, r.sale),
        calls |-> Append(st.calls,
                    [ index |-> i, enrichment_start |-> enrichment_start,
                      applied |-> r.applied, adjusted |-> r.adjusted ]),
        sales |-> Append(st.sales, RowAfterEffect(sale, sale_copy, r.sale)) ]

\* One iteration of `for sale in sales`; st = [treated_sales, calls, sales],
\* calls being the log of the effect function's invocations and sales the rows
\* of the caller's list as the iteration leaves them.
ApplyStep(st, i, sale, ids, enrichment_start, name, kwargs) ==
  LET sale_copy == DeepCopySale(sale)
  IN  IF sale_copy.row.product_id \in ids
      THEN LET r == CallEffect(name, sale_copy.row, enrichment_start, kwargs)
           IN  [ treated_sales |-> Append(st.treated_sales, r.sale),
                 calls |-> Append(st.calls,
                             [ index |-> i, enrichment_start |-> enrichment_start,
                               applied |-> r.applied, adjusted |-> r.adjusted ]),
                 sales |-> Append(st.sales, RowAfterEffect(sale, sale_copy, r.sale)) ]
      ELSE [ treated_sales |-> Append(st.treated_sales, sale_copy.row), calls |-> st.calls,
             sales |-> Append(st.sales, sale) ]

RECURSIVE ApplyLoop(_, _, _, _, _, _, _)
ApplyLoop(st, i, sls, ids, enrichment_start, name, kwargs) ==
  IF i > Len(sls) THEN st
  ELSE ApplyLoop(ApplyStep(st, i, sls[i], ids, enrichment_start, name, kwargs),
                 i + 1, sls, ids, enrichment_start, name, kwargs)

\* apply_enrichment_to_sales(sales, enriched_products, enrichment_start,
\* effect_function, **kwargs): [treated_sales, calls, sales], sales being the
\* caller's list after the call
apply_enrichment_to_sales(sls, eps, enrichment_start, name, kwargs) ==
  ApplyLoop([treated_sales |-> <<>>, calls |-> <<>>, sales |-> <<>>], 1, sls, EnrichedIds(eps),
            enrichment_start, name, kwargs)

\* ------------------------------------------------------------ data frames
\* A frame is [columns, rows]; a cell is [kind, s, codes, n]: an opaque
\* string (kind "name", in s), a text (kind "text", in codes), an integer
\* (kind "int", n) or a float with two decimals (kind "float", n in cents).
NameCell(v) == [kind |-> "name", s |-> v, codes |-> <<>>, n |-> 0]
TextCell(v) == [kind |-> "text", s |-> "", codes |-> v, n |-> 0]
IntCell(v) == [kind |-> "int", s |-> "", codes |-> <<>>, n |-> v]
FloatCell(v) == [kind |-> "float", s |-> "", codes |-> <<>>, n |-> v]

\* pd.DataFrame(products): no rows gives a frame without columns
ProductsFrame(prods) ==
  IF Len(prods) = 0 THEN [columns |-> <<>>, rows |-> <<>>]
  ELSE [ columns |-> <<"product_id", "name", "category", "price">>,
         rows |-> [ i \in 1..Len(prods) |->
                      << TextCell(prods[i].product_id), NameCell(prods[i].name),
                         NameCell(prods[i].category), FloatCell(prods[i].price) >> ] ]

\* pd.DataFrame(sales)
SalesFrame(sls) ==
  IF Len(sls) = 0 THEN [columns |-> <<>>, rows |-> <<>>]
  ELSE [ columns |-> << "transaction_id", "product_id", "product_name", "category",
                        "quantity", "unit_price", "revenue", "date" >>,
         rows |-> [ i \in 1..Len(sls) |->
                      << TextCell(sls[i].transaction_id), TextCell(sls[i].product_id),
                         NameCell(sls[i].product_name), NameCell(sls[i].category),
                         IntCell(sls[i].quantity), FloatCell(sls[i].unit_price),
                         FloatCell(sls[i].revenue), TextCell(sls[i].date) >> ] ]

\* len(df)
FrameLen(df) == Len(df.rows)

\* repr of a non-negative float with at most two decimals: "12.0", "12.3", "12.34"
FloatText(cents) ==
  LET whole == DigitCodes(Digits(cents \div 100))
      frac  == cents % 100
  IN  whole \o <<46>> \o
        (IF frac % 10 = 0 THEN DigitCodes(<<frac \div 10>>)
                          ELSE DigitCodes(ZeroPad(frac, 2)))

\* The text to_csv writes for a cell: [quoted-free text is s or codes]
CellText(c) ==
  CASE c.kind = "name"  -> [s |-> c.s, codes |-> <<>>]
    [] c.kind = "text"  -> [s |-> "", codes |-> c.codes]
    [] c.kind = "int"   -> [s |-> "", codes |-> DigitCodes(Digits(c.n))]
    [] c.kind = "float" -> [s |-> "", codes |-> FloatText(c.n)]

\* df.to_csv(path, index=False): a header line and one line per row
to_csv(df) ==
  [ header |-> df.columns,
    lines  |-> [ i \in 1..Len(df.rows) |->
                   [ j \in 1..Len(df.rows[i]) |-> CellText(df.rows[i][j]) ] ] ]

IsDigit(ch) == 48 <= ch /\ ch <= 57

\* the text is a run of digits
LooksInt(t) ==
  /\ t.s = ""
  /\ Len(t.codes) > 0
  /\ \A i \in 1..Len(t.codes) : IsDigit(t.codes[i])

\* the text is digits "." digits
LooksFloat(t) ==
  /\ t.s = ""
  /\ \E d \in 2..(Len(t.codes) - 1) :
       /\ t.codes[d] = 46
       /\ \A i \in (1..Len(t.codes)) \ {d} : IsDigit(t.codes[i])

\* float(text), in cents, of digits "." digits with at most two decimals
FloatOf(codes) ==
  LET d    == CHOOSE i \in 1..Len(codes) : codes[i] = 46
      frac == SubSeq(codes, d + 1, Len(codes))
  IN  100 * NumberOf(SubSeq(codes, 1, d - 1))
        + (IF Len(frac) = 1 THEN 10 * NumberOf(frac) ELSE NumberOf(SubSeq(frac, 1, 2)))

\* read_csv infers one type per column from its texts
ColumnType(lines, j) ==
  IF Len(lines) = 0 THEN "object"
  ELSE IF \A i \in 1..Len(lines) : LooksInt(lines[i][j]) THEN "int64"
  ELSE IF \A i \in 1..Len(lines) : LooksInt(lines[i][j]) \/ LooksFloat(lines[i][j])
       THEN "float64"
  ELSE "object"

ReadCell(t, type) ==
  CASE type = "int64"   -> IntCell(NumberOf(t.codes))
    [] type = "float64" -> FloatCell(IF LooksInt(t) THEN 100 * NumberOf(t.codes)
                                                    ELSE FloatOf(t.codes))
    [] type = "object"  -> IF t.s # "" THEN NameCell(t.s) ELSE TextCell(t.codes)

\* pd.read_csv(path): a file without a header line has no columns to parse
read_csv(file) ==
  IF Len(file.header) = 0
  THEN [ok |-> FALSE, error |-> "EmptyDataError", df |-> [columns |-> <<>>, rows |-> <<>>]]
  ELSE [ ok |-> TRUE, error |-> "",
         df |-> [ columns |-> file.header,
                  rows |-> [ i \in 1..Len(file.lines) |->
                               [ j \in 1..Len(file.header) |->
                                   ReadCell(file.lines[i][j],
                                            ColumnType(file.lines, j)) ] ] ] ]

\* ------------------------------------------------------------------- jobs
\* wall-clock seconds since midnight at which the model starts (00:09:59)
ClockStart == 599

\* datetime.now().strftime("%Y%m%d-%H%M%S") on 2024-01-01
Timestamp(clock) ==
  DigitCodes(ZeroPad(2024, 4)) \o DigitCodes(ZeroPad(1, 2)) \o DigitCodes(ZeroPad(1, 2))
    \o <<45>>
    \o DigitCodes(ZeroPad(clock \div 3600, 2))
    \o DigitCodes(ZeroPad((clock \div 60) % 60, 2))
    \o DigitCodes(ZeroPad(clock % 60, 2))

\* str(uuid.uuid4())[:8]: "11111111", "7a7a7a7a"
ShortUuids == { [i \in 1..8 |-> 49], [i \in 1..8 |-> IF i % 2 = 1 THEN 55 ELSE 97] }

\* "job-"
JobPrefix == <<106, 111, 98, 45>>

\* generate_job_id(): f"job-{timestamp}-{short_uuid}"
generate_job_id(clock, short_uuid) == JobPrefix \o Timestamp(clock) \o <<45>> \o short_uuid

\* name.startswith(prefix)
StartsWith(name, prefix) ==
  /\ Len(name) >= Len(prefix)
  /\ SubSeq(name, 1, Len(prefix)) = prefix

\* The storage path is [exists, dirs]; dirs maps a directory name to its
\* files; a job directory's files map a file name to its content.
NoDirs == [d \in {} |-> <<>>]
NoStorage == [exists |-> FALSE, dirs |-> NoDirs]

DirNames(st) == DOMAIN st.dirs

\* job_path.exists()
JobExists(st, job_id) == st.exists /\ job_id \in DirNames(st)

\* (mutation) "mode": "RULE", whatever the configuration holds
ModeAlwaysRule(config) == "RULE"

\* "mode": "RULE" if "RULE" in config else "SYNTHESIZER"
ModeOf(config) == IF config.has_rule THEN "RULE" ELSE "SYNTHESIZER"

\* The files save_job_data leaves in the job directory.
JobFiles(old, products_df, sales_df, config, job_id) ==
  [ f \in (DOMAIN old) \cup {"products.csv", "sales.csv", "metadata.json"}
            \cup (IF config.file_exists THEN {"config.yaml"} ELSE {}) |->
      CASE f = "products.csv"  -> to_csv(products_df)
        [] f = "sales.csv"     -> to_csv(sales_df)
        [] f = "config.yaml" /\ config.file_exists -> config.config_path
        [] f = "metadata.json" ->
             [ job_id |-> job_id, seed |-> config.seed, mode |-> ModeOf(config),
               num_products |-> FrameLen(products_df), num_sales |-> FrameLen(sales_df),
               config |-> config ]
        [] OTHER -> old[f] ]

\* job_path.mkdir(parents=True, exist_ok=True)
MakeDir(st, job_id) ==
  [ exists |-> TRUE,
    dirs |-> [ d \in DirNames(st) \cup {job_id} |->
                 IF d \in DirNames(st) THEN st.dirs[d] ELSE NoDirs ] ]

\* (mutation) the file goes to a path that leaves the job id out: it lands in
\* the first job directory of the storage path
WriteFileUnscoped(st, job_id, name, content) ==
  LET target == CHOOSE d \in DirNames(st) : \A e \in DirNames(st) : ~StrLess(e, d)
  IN  [ exists |-> st.exists,
        dirs |-> [ d \in DirNames(st) |->
                     IF d = target
                     THEN [ f \in (DOMAIN st.dirs[d]) \cup {name} |->
                              IF f = name THEN content ELSE st.dirs[d][f] ]
                     ELSE st.dirs[d] ] ]

\* one file written under job_path (to_csv, copy2, json.dump)
WriteFile(st, job_id, name, content) ==
  [ exists |-> st.exists,
    dirs |-> [ d \in DirNames(st) |->
                 IF d = job_id
                 THEN [ f \in (DOMAIN st.dirs[d]) \cup {name} |->
                          IF f = name THEN content ELSE st.dirs[d][f] ]
                 ELSE st.dirs[d] ] ]

\* the metadata record of save_job_data
Metadata(products_df, sales_df, config, job_id) ==
  [ job_id |-> job_id, seed |-> config.seed, mode |-> ModeOf(config),
    num_products |-> FrameLen(products_df), num_sales |-> FrameLen(sales_df),
    config |-> config ]

\* (mutation) the tables and the metadata are written into every job
\* directory of the storage path
save_job_data_everywhere(st, products_df, sales_df, config, job_id) ==
  LET old == IF JobExists(st, job_id) THEN st.dirs[job_id] ELSE NoDirs
      new == JobFiles(old, products_df, sales_df, config, job_id)
  IN  [ exists |-> TRUE,
        dirs |-> [ d \in DirNames(st) \cup {job_id} |-> new ] ]

\* save_job_data(products_df, sales_df, config, config_path, job_id), the
\* job id already chosen: the storage afterwards
save_job_data(st, products_df, sales_df, config, job_id) ==
  LET old == IF JobExists(st, job_id) THEN st.dirs[job_id] ELSE NoDirs
      new == JobFiles(old, products_df, sales_df, config, job_id)
  IN  [ exists |-> TRUE,
        dirs |-> [ d \in DirNames(st) \cup {job_id} |->
                     IF d = job_id THEN new ELSE st.dirs[d] ] ]

\* save_job_data stopped by an OS error of to_csv: the directory is made,
\* and `written` of the two tables (0: none, 1: products.csv) are on disk
save_job_data_interrupted(st, products_df, job_id, written) ==
  LET old == IF JobExists(st, job_id) THEN st.dirs[job_id] ELSE NoDirs
      new == [ f \in (DOMAIN old) \cup (IF written >= 1 THEN {"products.csv"} ELSE {}) |->
                 IF f = "products.csv" /\ written >= 1 THEN to_csv(products_df) ELSE old[f] ]
  IN  [ exists |-> TRUE,
        dirs |-> [ d \in DirNames(st) \cup {job_id} |->
                     IF d = job_id THEN new ELSE st.dirs[d] ] ]

\* load_job_results(job_info): [ok, error, products_df, sales_df]
NoFrame == [columns |-> <<>>, rows |-> <<>>]

load_job_results(st, job_id) ==
  IF ~JobExists(st, job_id)
  THEN [ok |-> FALSE, error |-> "FileNotFoundError", products_df |-> NoFrame, sales_df |-> NoFrame]
  ELSE LET files == st.dirs[job_id]
       IN  IF "products.csv" \notin DOMAIN files \/ "sales.csv" \notin DOMAIN files
           THEN [ ok |-> FALSE, error |-> "FileNotFoundError",
                  products_df |-> NoFrame, sales_df |-> NoFrame ]
           ELSE LET p == read_csv(files["products.csv"])
                    q == read_csv(files["sales.csv"])
                IN  IF ~p.ok
                    THEN [ok |-> FALSE, error |-> p.error, products_df |-> NoFrame, sales_df |-> NoFrame]
                    ELSE IF ~q.ok
                    THEN [ok |-> FALSE, error |-> q.error, products_df |-> NoFrame, sales_df |-> NoFrame]
                    ELSE [ok |-> TRUE, error |-> "", products_df |-> p.df, sales_df |-> q.df]

\* (mutation) ascending order: sorted(jobs) without reverse=True
RECURSIVE SortedAscending(_)
SortedAscending(names) ==
  IF names = {} THEN <<>>
  ELSE LET m == CHOOSE x \in names : \A y \in names : ~StrLess(y, x)
       IN  <<m>> \o SortedAscending(names \ {m})

\* sorted(jobs, reverse=True)
RECURSIVE SortedReverse(_)
SortedReverse(names) ==
  IF names = {} THEN <<>>
  ELSE LET m == CHOOSE x \in names : \A y \in names : ~StrLess(x, y)
       IN  <<m>> \o SortedReverse(names \ {m})

\* list_jobs(storage_path)
list_jobs(st) ==
  IF ~st.exists THEN <<>>
  ELSE SortedReverse({ d \in DirNames(st) : StartsWith(d, JobPrefix) })

\* (mutation) the kept jobs are the oldest ones
JobsToRemoveNewest(jobs, keep_count) == SubSeq(jobs, 1, Len(jobs) - keep_count)

\* jobs_to_remove = jobs[keep_count:]
JobsToRemove(jobs, keep_count) == SubSeq(jobs, keep_count + 1, Len(jobs))

\* cleanup_old_jobs(storage_path, keep_count): [storage, removed]
cleanup_old_jobs(st, keep_count) ==
  LET jobs == list_jobs(st)
  IN  IF Len(jobs) <= keep_count THEN [storage |-> st, removed |-> <<>>]
      ELSE LET gone == JobsToRemove(jobs, keep_count)
           IN  [ storage |-> [ exists |-> st.exists,
                               dirs |-> [ d \in DirNames(st) \ SeqRange(gone) |-> st.dirs[d] ] ],
                 removed |-> gone ]

\* ------------------------------------------------------- enrich workflow
ProductsColumns == <<"product_id", "name", "category", "price">>
SalesColumns ==
  << "transaction_id", "product_id", "product_name", "category",
     "quantity", "unit_price", "revenue", "date" >>

\* apply_enrichment(config_path, sales_df): the enriched sales table.  With
\* `treated` every row is a treated product's sale on or after the cutover
\* and gets the default quantity_boost; without it no row is treated.
apply_enrichment(sales_df, treated) ==
  IF sales_df.columns # SalesColumns
  THEN [ok |-> FALSE, error |-> "KeyError", df |-> NoFrame]
  ELSE [ ok |-> TRUE, error |-> "",
         df |-> [ columns |-> sales_df.columns,
                  rows |-> [ i \in 1..Len(sales_df.rows) |->
                               IF ~treated THEN sales_df.rows[i]
                               ELSE LET row == sales_df.rows[i]
                                        q   == IntTrunc(row[5].n * (100 + DefaultEffectSize), 100)
                                    IN  [ row EXCEPT ![5] = IntCell(q),
                                                     ![7] = FloatCell(q * row[6].n) ] ] ] ]

\* enrich(config_path, job_info), the id of the new job already chosen:
\* [ok, error, storage, products_df, sales_df] with the tables handed to
\* save_job_data
enrich(st, config, job_id, new_id, treated) ==
  LET l == load_job_results(st, job_id)
  IN  IF ~l.ok
      THEN [ ok |-> FALSE, error |-> l.error, storage |-> st,
             products_df |-> NoFrame, sales_df |-> NoFrame ]
      ELSE IF ~config.file_exists
      THEN [ ok |-> FALSE, error |-> "FileNotFoundError", storage |-> st,
             products_df |-> NoFrame, sales_df |-> NoFrame ]
      ELSE LET e == apply_enrichment(l.sales_df, treated)
           IN  IF ~e.ok
               THEN [ ok |-> FALSE, error |-> e.error, storage |-> st,
                      products_df |-> NoFrame, sales_df |-> NoFrame ]
               ELSE [ ok |-> TRUE, error |-> "",
                      storage |-> save_job_data(st, l.sales_df, e.df, config, new_id),
                      products_df |-> l.sales_df, sales_df |-> e.df ]

\* ----------------------------------------------------- function registry
Kinds == {"characteristics", "metrics", "enrichment"}

\* the defaults registered at process start
Builtins ==
  [ k \in { <<"characteristics", "default">>, <<"metrics", "default">> } |->
      IF k[1] = "characteristics" THEN "simulate_characteristics_rule_based"
                                  ELSE "simulate_metrics_rule_based" ]

\* (mutation) a name that is already registered keeps its first function
register_keeping(reg, kind, name, fn) ==
  [ k \in (DOMAIN reg) \cup {<<kind, name>>} |->
      IF k \in DOMAIN reg THEN reg[k] ELSE fn ]

\* register(kind, name, fn): the registry afterwards
register(reg, kind, name, fn) ==
  [ k \in (DOMAIN reg) \cup {<<kind, name>>} |->
      IF k = <<kind, name>> THEN fn ELSE reg[k] ]

\* get(kind, name): [ok, error, fn]
get(reg, kind, name) ==
  IF <<kind, name>> \in DOMAIN reg
  THEN [ok |-> TRUE, error |-> "", fn |-> reg[<<kind, name>>]]
  ELSE [ok |-> FALSE, error |-> "UnknownFunction", fn |-> ""]

\* get_simulation_function(kind, name) of the rule registry
get_simulation_function(reg, kind, name) == get(reg, kind, name)

\* ----------------------------------------------------- backend dispatch
\* BackendRegistry._backends after import, in registration order
BackendKeys == <<"RULE", "SYNTHESIZER">>

\* the class registered under a key
BackendClass(key) == IF key = "RULE" THEN "RuleBackend" ELSE "SynthesizerBackend"

\* the outcome of a dispatch: the backends constructed and the functions
\* called, each with the configuration handed over
Failure(error, message) ==
  [ ok |-> FALSE, error |-> error, message |-> message,
    constructed |-> <<>>, called |-> <<>> ]

\* (mutation) without a backend key the rule backend is built on an empty
\* configuration
detect_backend_defaulting(config) ==
  LET present == { i \in 1..Len(BackendKeys) : BackendKeys[i] \in DOMAIN config }
  IN  IF present = {}
      THEN [ ok |-> TRUE, error |-> "", message |-> "",
             constructed |-> << [cls |-> "RuleBackend", config |-> <<>>] >>,
             called |-> <<>> ]
      ELSE LET i   == CHOOSE i \in present : \A j \in present : i <= j
               key == BackendKeys[i]
           IN  [ ok |-> TRUE, error |-> "", message |-> "",
                 constructed |-> << [cls |-> BackendClass(key), config |-> config[key]] >>,
                 called |-> <<>> ]

\* BackendRegistry.detect_backend(config): the first registered key found
\* in config decides
detect_backend(config) ==
  LET present == { i \in 1..Len(BackendKeys) : BackendKeys[i] \in DOMAIN config }
  IN  IF present = {}
      THEN Failure("ValueError", "Config must contain one of")
      ELSE LET i   == CHOOSE i \in present : \A j \in present : i <= j
               key == BackendKeys[i]
           IN  [ ok |-> TRUE, error |-> "", message |-> "",
                 constructed |-> << [cls |-> BackendClass(key), config |-> config[key]] >>,
                 called |-> <<>> ]

\* d.get(key): the value, or "None"
Lookup(d, key) == IF key \in DOMAIN d THEN d[key] ELSE "None"

\* (mutation) the function is looked up among the built-in defaults only
CallBuiltin(reg, kind, name, config) ==
  LET f == get_simulation_function(Builtins, kind, name)
  IN  IF ~f.ok THEN Failure(f.error, name)
      ELSE [ ok |-> TRUE, error |-> "", message |-> "", constructed |-> <<>>,
             called |-> << [fn |-> f.fn, config |-> config] >> ]

\* a call of a registered function
CallRegistered(reg, kind, name, config) ==
  LET f == get_simulation_function(reg, kind, name)
  IN  IF ~f.ok THEN Failure(f.error, name)
      ELSE [ ok |-> TRUE, error |-> "", message |-> "", constructed |-> <<>>,
             called |-> << [fn |-> f.fn, config |-> config] >> ]

\* backend.simulate_characteristics() / backend.simulate_metrics(products):
\* section is "CHARACTERISTICS" or "METRICS"
BackendSimulate(reg, backend, section) ==
  LET kind == IF section = "CHARACTERISTICS" THEN "characteristics" ELSE "metrics"
  IN  IF backend.cls = "RuleBackend"
      THEN IF section \notin DOMAIN backend.config
           THEN Failure("KeyError", section)
           ELSE CallRegistered(reg, kind, Lookup(backend.config[section], "FUNCTION"),
                               [RULE |-> backend.config])
      ELSE [ ok |-> TRUE, error |-> "", message |-> "", constructed |-> <<>>,
             called |-> << [ fn |-> IF section = "CHARACTERISTICS"
                                   THEN "simulate_characteristics_synthesizer_based"
                                   ELSE "simulate_metrics_synthesizer_based",
                             config |-> [SYNTHESIZER |-> backend.config] ] >> ]

\* simulate/characteristics.py, simulate/metrics.py: detect the backend,
\* then run its operation
DetectAndSimulate(reg, config, section) ==
  LET b == detect_backend(config)
  IN  IF ~b.ok THEN b
      ELSE LET r == BackendSimulate(reg, b.constructed[1], section)
           IN  [r EXCEPT !.constructed = b.constructed]

\* rule_config.get("CUSTOM_<section>_FUNCTION") or rule_config.get("CUSTOM_FUNCTION", "default")
CustomFunction(rule_config, section) ==
  LET own == Lookup(rule_config, IF section = "CHARACTERISTICS"
                                 THEN "CUSTOM_CHARACTERISTICS_FUNCTION"
                                 ELSE "CUSTOM_METRICS_FUNCTION")
  IN  IF own # "None" /\ own # "" THEN own
      ELSE IF "CUSTOM_FUNCTION" \in DOMAIN rule_config THEN rule_config["CUSTOM_FUNCTION"]
      ELSE "default"

\* the top-level dispatchers simulate_characteristics(config_path) and
\* simulate_metrics(product_characteristics, config_path) on the loaded config
Dispatcher(reg, config_loaded, section) ==
  LET has_rule        == "RULE" \in DOMAIN config_loaded
      has_synthesizer == "SYNTHESIZER" \in DOMAIN config_loaded
      kind == IF section = "CHARACTERISTICS" THEN "characteristics" ELSE "metrics"
  IN  IF has_rule /\ ~has_synthesizer
      THEN CallRegistered(reg, kind, CustomFunction(config_loaded["RULE"], section),
                          config_loaded)
      ELSE IF has_synthesizer /\ ~has_rule
      THEN [ ok |-> TRUE, error |-> "", message |-> "", constructed |-> <<>>,
             called |-> << [ fn |-> IF section = "CHARACTERISTICS"
                                   THEN "simulate_characteristics_synthesizer_based"
                                   ELSE "simulate_metrics_synthesizer_based",
                             config |-> config_loaded ] >> ]
      ELSE IF has_rule /\ has_synthesizer
      THEN Failure("ValueError",
                   "Config must contain exactly one of RULE or SYNTHESIZER block, not both")
      ELSE Failure("ValueError", "Config must contain either RULE or SYNTHESIZER block")

simulate_characteristics(reg, config_loaded) == Dispatcher(reg, config_loaded, "CHARACTERISTICS")

simulate_metrics(reg, config_loaded) == Dispatcher(reg, config_loaded, "METRICS")

\* ---------------------------------------------------------------- state
VARIABLES
  rng,        \* state of the module-level generator of `random`
  args,       \* the fixed inputs (seed, n, date_start, date_end, sale_probability, fraction)
  out1,       \* products1 / sales1: the first run of the generation pipeline
  out2,       \* products2 / sales2: the second run with the same inputs
  enr1,       \* enriched1: the first assign_enrichment call
  enr2,       \* enriched2: the second call with the same inputs
  products,   \* the caller's product list
  asg,        \* the last assign_enrichment call on it: inputs and outcome
  pc,         \* position in the generate / assign / apply sequence
  cfg,        \* SEED, NUM_PRODUCTS, sale probability, ENRICHMENT.FRACTION
  sales,      \* baseline sales (the counterfactual)
  enriched_products,  \* products with the enriched flag
  apply_in,   \* arguments of the last apply_enrichment_to_sales call
  factual_sales,      \* its result
  calls,      \* the effect function's invocations during that call
  napply,     \* how many times the enrichment stage has been applied
  storage,    \* the storage path: whether it exists and its job directories
  clock,      \* the wall clock, in seconds
  last,       \* the last job operation: its arguments and what it returned
  registry,   \* the function registry: (kind, name) -> function
  reglog,     \* the registrations made so far, oldest first
  dispatch,   \* the last dispatch or lookup: its arguments and its outcome
  metrics,    \* the rows of the last simulate_metrics_rule_based call
  parsed,     \* the last parse_effect_spec call: its input and its outcome
  validation, \* the last validate_config call: the configuration and the outcome
  procs       \* the calls in progress: position, job id and arguments

detVars == <<args, out1, out2, enr1, enr2>>
asgVars == <<products, asg>>
enrVars == <<pc, cfg, sales, enriched_products, apply_in, factual_sales, calls, napply>>

jobVars == <<storage, clock, last>>
engVars == <<registry, reglog, dispatch, metrics, parsed>>
auxVars == <<validation, procs>>

\* what the actions of one group leave alone
detFrame == <<asgVars, enrVars, jobVars, engVars, auxVars>>
asgFrame == <<detVars, enrVars, jobVars, engVars, auxVars>>
enrFrame == <<detVars, asg, jobVars, engVars, auxVars>>
jobFrame == <<rng, detVars, asgVars, enrVars, engVars, auxVars>>
engFrame == <<rng, detVars, asgVars, enrVars, jobVars, auxVars>>
vars == <<rng, args, out1, out2, enr1, enr2, detFrame>>

\* hundredths
SaleProbabilities == {0, 50, 100}
Fractions == {0, 25, 50, 75, 100}

DateRanges == {<<1, 1>>, <<1, MaxDay>>, <<MaxDay, 1>>}

NoRun == [done |-> FALSE, products |-> <<>>, sales |-> <<>>]
NoCall ==
  [ done |-> FALSE, fraction |-> 0, seed |-> NoSeed, ok |-> FALSE, error |-> "",
    enriched_products |-> <<>>, indices |-> <<>>, input |-> <<>> ]
NoAssignment == [done |-> FALSE, ok |-> FALSE, enriched_products |-> <<>>, indices |-> <<>>]

\* generate_product_data(n, seed) followed by
\* generate_sales_data(products, date_start, date_end, seed, sale_probability)
Pipeline(n, seed, ds, de, p, r) ==
  LET g == generate_product_data(n, seed, r)
      s == generate_sales_data(g.products, FormatDate(ds), FormatDate(de), seed, p, g.rng)
  IN  [products |-> g.products, sales |-> s.sales, rng |-> s.rng]

NoApply == [sales |-> <<>>, enrichment_start |-> FormatDate(1), effect |-> "", kwargs |-> <<>>]
NoConfig == [seed |-> 1, n |-> 0, p |-> 0, fraction |-> 0]
NoArgs == [seed |-> 1, n |-> 0, range |-> <<1, 1>>, p |-> 0, fraction |-> 0]

DetIdle ==
  /\ args = NoArgs
  /\ out1 = NoRun
  /\ out2 = NoRun
  /\ enr1 = NoAssignment
  /\ enr2 = NoAssignment

EnrIdle ==
  /\ pc = "idle"
  /\ cfg = NoConfig
  /\ sales = <<>>
  /\ enriched_products = <<>>
  /\ apply_in = NoApply
  /\ factual_sales = <<>>
  /\ calls = <<>>
  /\ napply = 0

NoLoad == [ok |-> FALSE, error |-> "", products_df |-> NoFrame, sales_df |-> NoFrame]
NoOp ==
  [ kind |-> "none", job_id |-> <<>>, fresh |-> FALSE, after_save |-> FALSE,
    products_df |-> NoFrame, sales_df |-> NoFrame, loaded |-> NoLoad,
    keep_count |-> 0, before |-> <<>>, removed |-> <<>>, source |-> <<>>, config |-> <<>> ]

JobIdle ==
  /\ storage = NoStorage
  /\ clock = ClockStart
  /\ last = NoOp

NoDispatch ==
  [ op |-> "none", section |-> "", config |-> <<>>, kind |-> "", name |-> "", at |-> 0,
    result |-> Failure("", ""), found |-> [ok |-> FALSE, error |-> "", fn |-> ""] ]

\* the registrations of the built-in defaults, as a log
BuiltinLog ==
  << <<"characteristics", "default", "simulate_characteristics_rule_based">>,
     <<"metrics", "default", "simulate_metrics_rule_based">> >>

NoInput ==
  [ form |-> "none", name |-> <<>>, padded |-> FALSE, size |-> 0, tail |-> <<>>,
    module |-> "absent", function |-> "absent", params |-> "absent" ]

NoParse == [done |-> FALSE, input |-> NoInput, result |-> ParseFailure("")]

NoValidation == [done |-> FALSE, config |-> <<>>, ok |-> FALSE, error |-> ""]

AuxIdle ==
  /\ validation = NoValidation
  /\ procs = <<>>

EngIdle ==
  /\ registry = Builtins
  /\ reglog = BuiltinLog
  /\ dispatch = NoDispatch
  /\ metrics = <<>>
  /\ parsed = NoParse

DetInit ==
  /\ EnrIdle
  /\ JobIdle
  /\ EngIdle
  /\ AuxIdle
  /\ rng \in 0..(RngMod - 1)
  /\ args \in [ seed : SeedValues, n : 0..MaxProducts, range : DateRanges,
                p : SaleProbabilities, fraction : Fractions ]
  /\ out1 = NoRun
  /\ out2 = NoRun
  /\ enr1 = NoAssignment
  /\ enr2 = NoAssignment
  /\ products = <<>>
  /\ asg = NoCall

RunPipeline ==
  Pipeline(args.n, args.seed, args.range[1], args.range[2], args.p, rng)

\* products1 = generate_products(...); sales1 = generate_sales(...)
FirstRun ==
  /\ ~out1.done
  /\ out1' = [done |-> TRUE, products |-> RunPipeline.products, sales |-> RunPipeline.sales]
  /\ rng' = RunPipeline.rng
  /\ UNCHANGED <<args, out2, enr1, enr2, detFrame>>

\* products2 = generate_products(...); sales2 = generate_sales(...)
SecondRun ==
  /\ out1.done
  /\ out2' = [done |-> TRUE, products |-> RunPipeline.products, sales |-> RunPipeline.sales]
  /\ rng' = RunPipeline.rng
  /\ UNCHANGED <<args, out1, enr1, enr2, detFrame>>

RunAssign == assign_enrichment(out1.products, args.fraction, args.seed, rng)

AssignmentOf(a) ==
  [done |-> TRUE, ok |-> a.ok, enriched_products |-> a.enriched_products, indices |-> a.indices]

\* enriched1 = assign_enrichment(products, fraction, seed)
FirstAssign ==
  /\ out1.done
  /\ ~enr1.done
  /\ enr1' = AssignmentOf(RunAssign)
  /\ rng' = RunAssign.rng
  /\ UNCHANGED <<args, out1, out2, enr2, detFrame>>

\* enriched2 = assign_enrichment(products, fraction, seed)
SecondAssign ==
  /\ enr1.done
  /\ enr2' = AssignmentOf(RunAssign)
  /\ rng' = RunAssign.rng
  /\ UNCHANGED <<args, out1, out2, enr1, detFrame>>

\* Any other generator call in between: only the shared generator is touched.
OtherGenerate ==
  \E n \in 0..MaxProducts, seed \in Seeds :
    /\ rng' = Pipeline(n, seed, args.range[1], args.range[2], args.p, rng).rng
    /\ UNCHANGED <<detVars, detFrame>>

\* Any other assignment call in between.
OtherAssign ==
  \E seed \in Seeds :
    /\ rng' = assign_enrichment(out1.products, args.fraction, seed, rng).rng
    /\ UNCHANGED <<detVars, detFrame>>

\* Any other use of the module-level generator.
RandomDraw ==
  /\ rng' = NextRng(rng)
  /\ UNCHANGED <<detVars, detFrame>>

DetNext ==
  \/ FirstRun
  \/ SecondRun
  \/ FirstAssign
  \/ SecondAssign
  \/ OtherGenerate
  \/ OtherAssign
  \/ RandomDraw

SpecDet == DetInit /\ [][DetNext]_vars

\* C1: with a non-null seed, two runs of generate_product_data followed by
\* generate_sales_data on the same inputs return the same product table and
\* the same sales table, whatever used the generator before or in between.
C1_PipelineDeterministic ==
  (out1.done /\ out2.done /\ args.seed # NoSeed) =>
    (out1.products = out2.products /\ out1.sales = out2.sales)

C1_Witness ==
  /\ out1.done /\ out2.done
  /\ Len(out2.products) = MaxProducts
  /\ Len(out2.sales) > 1
  /\ rng # Pipeline(args.n, args.seed, args.range[1], args.range[2], args.p, 0).rng

TreatedIds(eps) ==
  { eps[i].product_id : i \in { j \in 1..Len(eps) : eps[j].enriched } }

\* C5: with a non-null seed, two assign_enrichment calls on the same
\* (products, fraction, seed) return the same treated set, whatever used the
\* generator before or in between.
C5_AssignmentDeterministic ==
  (enr1.done /\ enr2.done /\ args.seed # NoSeed) =>
    /\ enr1.ok = enr2.ok
    /\ TreatedIds(enr1.enriched_products) = TreatedIds(enr2.enriched_products)

C5_Witness ==
  /\ enr1.done /\ enr2.done /\ enr2.ok
  /\ Cardinality(TreatedIds(enr2.enriched_products)) = 1
  /\ Len(enr2.enriched_products) = 2

\* ------------------------------------------- assignment, any seed and size
MaxAssignProducts == 4

\* in-range and out-of-range fractions, hundredths
AnyFractions == Fractions \cup {-50, 150}

AsgInit ==
  /\ rng \in 0..(RngMod - 1)
  /\ products \in { generate_product_data(n, s, 0).products :
                       n \in 0..MaxAssignProducts, s \in SeedValues }
  /\ asg = NoCall
  /\ DetIdle
  /\ EnrIdle
  /\ JobIdle
  /\ EngIdle
  /\ AuxIdle

\* enriched = assign_enrichment(products, fraction, seed)
CallAssign ==
  \E fraction \in AnyFractions, seed \in Seeds :
    LET a == assign_enrichment(products, fraction, seed, rng)
    IN  /\ asg' = [ done |-> TRUE, fraction |-> fraction, seed |-> seed, ok |-> a.ok,
                    error |-> a.error, enriched_products |-> a.enriched_products,
                    indices |-> a.indices, input |-> products ]
        /\ products' = a.products
        /\ rng' = a.rng
        /\ UNCHANGED asgFrame

AsgNext == CallAssign

SpecAssign == AsgInit /\ [][AsgNext]_vars

EnrichedCount(eps) == Cardinality({ i \in 1..Len(eps) : eps[i].enriched })

\* C4: for a fraction in [0, 1], assign_enrichment marks exactly
\* floor(|products| * fraction) products, each drawn index at most once;
\* fraction 0 marks none and fraction 1 marks all.
C4_AssignmentSize ==
  (asg.done /\ asg.fraction >= 0 /\ asg.fraction <= 100) =>
    /\ asg.ok
    /\ Len(asg.enriched_products) = Len(products)
    /\ \E k \in 0..Len(products) :
         /\ 100 * k <= Len(products) * asg.fraction
         /\ Len(products) * asg.fraction < 100 * (k + 1)
         /\ EnrichedCount(asg.enriched_products) = k
         /\ Len(asg.indices) = k
    /\ Cardinality(SeqRange(asg.indices)) = Len(asg.indices)
    /\ SeqRange(asg.indices) \subseteq 0..(Len(products) - 1)
    /\ (asg.fraction = 0 => EnrichedCount(asg.enriched_products) = 0)
    /\ (asg.fraction = 100 => EnrichedCount(asg.enriched_products) = Len(products))

C4_Witness ==
  /\ asg.done /\ asg.fraction = 75 /\ asg.seed = NoSeed
  /\ Len(products) = MaxAssignProducts
  /\ EnrichedCount(asg.enriched_products) = 3

\* ------------------------------------------- generate, assign, apply
LastDay == 9
MaxApply == 2

Cutovers == {1, 2, 5, LastDay + 1}
Kwargs == {<<>>, <<-50>>, <<0>>, <<120>>}
EnrFractions == {0, 50, 100}
EnrProbabilities == {50, 100}

EnrInit ==
  /\ rng = 0
  /\ DetIdle
  /\ JobIdle
  /\ EngIdle
  /\ AuxIdle
  /\ products = <<>>
  /\ asg = NoCall
  /\ pc = "start"
  /\ cfg \in [seed : SeedValues, n : 0..MaxProducts, p : EnrProbabilities, fraction : EnrFractions]
  /\ sales = <<>>
  /\ enriched_products = <<>>
  /\ apply_in = NoApply
  /\ factual_sales = <<>>
  /\ calls = <<>>
  /\ napply = 0

\* products = generate_product_data(...); sales = generate_sales_data(...)
Baseline ==
  /\ pc = "start"
  /\ LET b == Pipeline(cfg.n, cfg.seed, 1, LastDay, cfg.p, rng)
     IN  /\ products' = b.products
         /\ sales' = b.sales
         /\ rng' = b.rng
  /\ pc' = "baseline"
  /\ UNCHANGED <<cfg, enriched_products, apply_in, factual_sales, calls, napply, enrFrame>>

\* enriched_products = assign_enrichment(products, enrichment_fraction, seed)
Assign ==
  /\ pc = "baseline"
  /\ LET a == assign_enrichment(products, cfg.fraction, cfg.seed, rng)
     IN  /\ a.ok
         /\ enriched_products' = a.enriched_products
         /\ rng' = a.rng
  /\ pc' = "assigned"
  /\ UNCHANGED <<products, cfg, sales, apply_in, factual_sales, calls, napply, enrFrame>>

\* factual_sales = apply_enrichment_to_sales(sales, enriched_products,
\* enrichment_start, effect_function, **effect_params); a later application
\* takes the factual sales as its input. counterfactual_sales = sales and the
\* returned pd.DataFrame(sales) are the list sales as the calls leave it.
Apply ==
  /\ pc \in {"assigned", "applied"}
  /\ napply < MaxApply
  /\ \E start \in Cutovers, name \in EffectNames, kwargs \in Kwargs :
       LET input == IF pc = "assigned" THEN sales ELSE factual_sales
           res   == apply_enrichment_to_sales(input, enriched_products,
                                              FormatDate(start), name, kwargs)
       IN  /\ apply_in' = [ sales |-> input, enrichment_start |-> FormatDate(start),
                            effect |-> name, kwargs |-> kwargs ]
           /\ factual_sales' = res.treated_sales
           /\ calls' = res.calls
           /\ sales' = IF pc = "assigned" THEN res.sales ELSE sales
  /\ napply' = napply + 1
  /\ pc' = "applied"
  /\ UNCHANGED <<rng, products, cfg, enriched_products, enrFrame>>

EnrNext ==
  \/ Baseline
  \/ Assign
  \/ Apply

SpecEnrich == EnrInit /\ [][EnrNext]_vars

\* "YYYY-MM-DD" texts compared as texts
DateLess(a, b) == StrLess(a, b)

SameButQuantityRevenue(a, b) ==
  [a EXCEPT !.quantity = b.quantity, !.revenue = b.revenue] = b

IsFloorOf(k, num, den) == den * k <= num /\ num < den * (k + 1)

RevenueConsistent(sale) == sale.revenue = Round2(sale.quantity * sale.unit_price * 10)

\* C2: under apply_enrichment_to_sales with quantity_boost and effect_size >= 0,
\* a treated product's sale dated before the cutover is returned unchanged,
\* and one dated on or after it gets quantity floor(q * (1 + effect_size)),
\* revenue round(quantity * unit_price, 2), and no other change.
C2_QuantityBoostCutover ==
  (pc = "applied" /\ apply_in.effect = "quantity_boost" /\ EffectSizeOf(apply_in.kwargs) >= 0) =>
    \A i \in 1..Len(apply_in.sales) :
      LET in  == apply_in.sales[i]
          out == factual_sales[i]
      IN  in.product_id \in TreatedIds(enriched_products) =>
            IF DateLess(in.date, apply_in.enrichment_start)
            THEN out = in
            ELSE /\ IsFloorOf(out.quantity,
                              in.quantity * (100 + EffectSizeOf(apply_in.kwargs)), 100)
                 /\ RevenueConsistent(out)
                 /\ SameButQuantityRevenue(out, in)

C2_Witness ==
  /\ pc = "applied" /\ apply_in.effect = "quantity_boost"
  /\ apply_in.kwargs = <<>>
  /\ apply_in.enrichment_start = FormatDate(2)
  /\ \E i, j \in 1..Len(apply_in.sales) :
       /\ apply_in.sales[i].product_id \in TreatedIds(enriched_products)
       /\ apply_in.sales[j].product_id = apply_in.sales[i].product_id
       /\ apply_in.sales[i].date = FormatDate(1)
       /\ factual_sales[i] = apply_in.sales[i]
       /\ apply_in.sales[j].date = FormatDate(2)
       /\ apply_in.sales[j].quantity = 3
       /\ factual_sales[j].quantity = 4

\* C3: every sale row has revenue = round(quantity * unit_price, 2) after
\* generate_sales_data and after every application of the enrichment stage.
C3_RevenueConsistent ==
  /\ \A i \in 1..Len(sales) : RevenueConsistent(sales[i])
  /\ \A i \in 1..Len(factual_sales) : RevenueConsistent(factual_sales[i])

C3_Witness ==
  /\ napply = MaxApply
  /\ \E i \in 1..Len(factual_sales) :
       /\ factual_sales[i].quantity > sales[i].quantity
       /\ factual_sales[i].quantity # apply_in.sales[i].quantity

\* C6: apply_enrichment_to_sales returns one row per input row in the same
\* order; an untreated product's row is the input row, a treated product's
\* row is the result of one call of the effect function on it with
\* enrichment_start = the cutover date.
C6_ApplyFrame ==
  pc = "applied" =>
    /\ Len(factual_sales) = Len(apply_in.sales)
    /\ \A i \in 1..Len(apply_in.sales) :
         LET in == apply_in.sales[i]
             n  == Cardinality({ c \in 1..Len(calls) : calls[c].index = i })
         IN  IF in.product_id \in TreatedIds(enriched_products)
             THEN /\ factual_sales[i] =
                       CallEffect(apply_in.effect, in, apply_in.enrichment_start,
                                  apply_in.kwargs).sale
                  /\ n = 1
             ELSE /\ factual_sales[i] = in
                  /\ n = 0
    /\ \A c \in 1..Len(calls) : calls[c].enrichment_start = apply_in.enrichment_start

C6_Witness ==
  /\ pc = "applied"
  /\ \E i, j \in 1..Len(apply_in.sales) :
       /\ apply_in.sales[i].product_id \in TreatedIds(enriched_products)
       /\ factual_sales[i] # apply_in.sales[i]
       /\ apply_in.sales[j].product_id \notin TreatedIds(enriched_products)
       /\ ~DateLess(apply_in.sales[j].date, apply_in.enrichment_start)

\* The ramp of combined_boost in the last call: the effect applied to a sale
\* dated cutover + k is effect_size * min(1, k/7), and from day 7 on the row
\* is the one quantity_boost returns.
RampAsStated ==
  \A c \in 1..Len(calls) :
    LET in == apply_in.sales[calls[c].index]
        e  == EffectSizeOf(apply_in.kwargs)
        k  == ParseDate(in.date) - ParseDate(apply_in.enrichment_start)
    IN  k >= 0 =>
          /\ calls[c].applied
          /\ calls[c].adjusted = (IF k < 7 THEN e * k ELSE e * 7)
          /\ (k >= 7 =>
                factual_sales[calls[c].index] =
                  quantity_boost(in, apply_in.enrichment_start, e).sale)

\* The applied effect does not decrease from one ramp day to a later one.
RampNonDecreasing ==
  \A c1, c2 \in 1..Len(calls) :
    LET k1 == DaysSince(apply_in.sales[calls[c1].index], apply_in.enrichment_start)
        k2 == DaysSince(apply_in.sales[calls[c2].index], apply_in.enrichment_start)
    IN  (0 <= k1 /\ k1 <= k2 /\ k2 < 7) => calls[c1].adjusted <= calls[c2].adjusted

RampNonIncreasing ==
  \A c1, c2 \in 1..Len(calls) :
    LET k1 == DaysSince(apply_in.sales[calls[c1].index], apply_in.enrichment_start)
        k2 == DaysSince(apply_in.sales[calls[c2].index], apply_in.enrichment_start)
    IN  (0 <= k1 /\ k1 <= k2 /\ k2 < 7) => calls[c1].adjusted >= calls[c2].adjusted

\* C7 as stated: for every effect_size combined_boost accepts, the adjusted
\* effect is effect_size * min(1, k/7), non-decreasing in k on the ramp and
\* equal to effect_size from day 7 on.
C7_RampAnyEffectSize ==
  (pc = "applied" /\ apply_in.effect = "combined_boost") =>
    (RampAsStated /\ RampNonDecreasing)

\* C7 (amended): the adjusted effect is effect_size * min(1, k/7) and equals
\* effect_size from day 7 on for every effect_size; on the ramp it is
\* non-decreasing in k when effect_size >= 0 and non-increasing when
\* effect_size < 0.
C7_RampBySign ==
  (pc = "applied" /\ apply_in.effect = "combined_boost") =>
    /\ RampAsStated
    /\ (EffectSizeOf(apply_in.kwargs) >= 0 => RampNonDecreasing)
    /\ (EffectSizeOf(apply_in.kwargs) < 0 => RampNonIncreasing)

C7_Witness ==
  /\ pc = "applied" /\ apply_in.effect = "combined_boost"
  /\ apply_in.kwargs = <<120>>
  /\ \E c1, c2, c3 \in 1..Len(calls) :
       /\ DaysSince(apply_in.sales[calls[c1].index], apply_in.enrichment_start) = 3
       /\ DaysSince(apply_in.sales[calls[c2].index], apply_in.enrichment_start) = 6
       /\ DaysSince(apply_in.sales[calls[c3].index], apply_in.enrichment_start) = 8
       /\ calls[c1].adjusted < calls[c2].adjusted
       /\ calls[c2].adjusted < calls[c3].adjusted
       /\ factual_sales[calls[c3].index].quantity > apply_in.sales[calls[c3].index].quantity

\* ------------------------------------------------- save, load, list, clean
MaxClock == 600
MaxJobs == 3
MaxKeep == 2

\* caller-supplied job ids: "run"
CustomIds == { <<114, 117, 110>> }

\* job ids a caller may hold without their being in storage
StaleIds == { generate_job_id(ClockStart - 1, u) : u \in ShortUuids }

\* the configuration of a run: a RULE config read from an existing file, or
\* a SYNTHESIZER config whose config_path names no file
ConfigOf(rule) ==
  IF rule
  THEN [ seed |-> 1, has_rule |-> TRUE, has_synthesizer |-> FALSE, file_exists |-> TRUE,
         config_path |-> "config_rule.yaml" ]
  ELSE [ seed |-> 2, has_rule |-> FALSE, has_synthesizer |-> TRUE, file_exists |-> FALSE,
         config_path |-> "missing.yaml" ]

\* what callers save, as <<num_products, sale_probability, rule>>: a
\* two-product run with sales, a run without sales
SaveRequests == { <<2, 100, TRUE>>, <<1, 0, FALSE>> }

\* the (products, sales) tables of the rule-based generators for a request,
\* with its config
GeneratedTables(request) ==
  LET config == ConfigOf(request[3])
      b      == Pipeline(request[1], config.seed, 1, 1, request[2], 0)
  IN  [ products_df |-> ProductsFrame(b.products), sales_df |-> SalesFrame(b.sales),
        config |-> config ]

JobInit ==
  /\ rng = 0
  /\ DetIdle
  /\ products = <<>>
  /\ asg = NoCall
  /\ EnrIdle
  /\ JobIdle
  /\ EngIdle
  /\ AuxIdle

\* time passes
Tick ==
  /\ clock < MaxClock
  /\ clock' = clock + 1
  /\ UNCHANGED <<storage, last, jobFrame>>

SaveUnder(job_id, request) ==
  LET t == GeneratedTables(request) IN
  /\ JobExists(storage, job_id) \/ Cardinality(DirNames(storage)) < MaxJobs
  /\ storage' = save_job_data(storage, t.products_df, t.sales_df, t.config, job_id)
  /\ last' = [ NoOp EXCEPT !.kind = "save", !.job_id = job_id,
                           !.fresh = ~JobExists(storage, job_id),
                           !.products_df = t.products_df, !.sales_df = t.sales_df ]
  /\ UNCHANGED <<clock, jobFrame>>

\* save_job_data(products_df, sales_df, config, config_path)
Save ==
  \E request \in SaveRequests, u \in ShortUuids :
    SaveUnder(generate_job_id(clock, u), request)

\* save_job_data(products_df, sales_df, config, config_path, job_id=...)
SaveAs ==
  \E request \in SaveRequests, job_id \in CustomIds :
    SaveUnder(job_id, request)

\* load_job_results(job_info)
Load ==
  \E job_id \in DirNames(storage) \cup SeqRange(last.removed) \cup StaleIds :
    /\ last' = [ NoOp EXCEPT !.kind = "load", !.job_id = job_id,
                             !.after_save = (last.kind = "save" /\ last.job_id = job_id),
                             !.fresh = (last.kind = "save" /\ last.job_id = job_id /\ last.fresh),
                             !.products_df = IF last.kind = "save" /\ last.job_id = job_id
                                             THEN last.products_df ELSE NoFrame,
                             !.sales_df = IF last.kind = "save" /\ last.job_id = job_id
                                          THEN last.sales_df ELSE NoFrame,
                             !.loaded = load_job_results(storage, job_id) ]
    /\ UNCHANGED <<storage, clock, jobFrame>>

\* list_jobs(storage_path)
ListJobs ==
  /\ last' = [NoOp EXCEPT !.kind = "list", !.before = list_jobs(storage)]
  /\ UNCHANGED <<storage, clock, jobFrame>>

\* cleanup_old_jobs(storage_path, keep_count)
Cleanup ==
  \E keep_count \in 0..MaxKeep :
    LET c == cleanup_old_jobs(storage, keep_count)
    IN  /\ storage' = c.storage
        /\ last' = [ NoOp EXCEPT !.kind = "cleanup", !.keep_count = keep_count,
                                 !.before = list_jobs(storage), !.removed = c.removed ]
        /\ UNCHANGED <<clock, jobFrame>>

JobNext ==
  \/ Tick
  \/ Save
  \/ SaveAs
  \/ Load
  \/ ListJobs
  \/ Cleanup

SpecJobs == JobInit /\ [][JobNext]_vars


\* ------------------------------------------------------ claims on jobs
Min(a, b) == IF a <= b THEN a ELSE b

\* the position of a job id in a listing (0 when absent)
IndexOf(jobs, job_id) ==
  IF job_id \in SeqRange(jobs) THEN CHOOSE i \in 1..Len(jobs) : jobs[i] = job_id ELSE 0

\* the load directly follows the save of the same job under a fresh id
LoadedAfterFreshSave == last.kind = "load" /\ last.after_save /\ last.fresh

\* C8: saving (products, sales) under a fresh job id and then loading that
\* job returns tables equal to the saved ones, row for row and column for
\* column, whatever happened in the storage path before the save.
C8_RoundTrip ==
  LoadedAfterFreshSave =>
    /\ last.loaded.ok
    /\ last.loaded.products_df = last.products_df
    /\ last.loaded.sales_df = last.sales_df

\* The round trip of tables that both have rows: the loaded tables are the
\* saved ones.
RoundTripWithRows ==
  (LoadedAfterFreshSave /\ FrameLen(last.products_df) > 0 /\ FrameLen(last.sales_df) > 0) =>
    /\ last.loaded.ok
    /\ last.loaded.products_df = last.products_df
    /\ last.loaded.sales_df = last.sales_df

\* a fresh save of a two-row sales table was loaded back
RoundTripWithRowsReached ==
  LoadedAfterFreshSave /\ FrameLen(last.sales_df) = 2 /\ Cardinality(DirNames(storage)) > 1

\* C9: cleanup_old_jobs(storage_path, keep_count) removes exactly the jobs
\* that are not among the keep_count greatest ids of the listing: afterwards
\* list_jobs returns the first min(keep_count, n) entries of the listing
\* before the call, the returned list is the other entries, each of them is
\* smaller than every kept id, its directory is gone and loading it fails,
\* and a second identical cleanup removes nothing and changes nothing.
C9_CleanupKeepsNewest ==
  last.kind = "cleanup" =>
    LET before == last.before
        n      == Len(before)
        m      == Min(last.keep_count, n)
        again  == cleanup_old_jobs(storage, last.keep_count)
    IN  /\ list_jobs(storage) = SubSeq(before, 1, m)
        /\ last.removed = SubSeq(before, m + 1, n)
        /\ \A i \in 1..m : \A j \in (m + 1)..n : StrLess(before[j], before[i])
        /\ \A j \in 1..Len(last.removed) :
             /\ ~JobExists(storage, last.removed[j])
             /\ ~load_job_results(storage, last.removed[j]).ok
             /\ load_job_results(storage, last.removed[j]).error = "FileNotFoundError"
        /\ again.removed = <<>>
        /\ again.storage = storage

\* a cleanup that kept one job and removed two
C9_Witness ==
  /\ last.kind = "cleanup"
  /\ last.keep_count = 1
  /\ Len(last.removed) = 2
  /\ Len(list_jobs(storage)) = 1

\* C10: list_jobs(storage_path) returns the job ids ("job-" directories)
\* under the storage path, each once, in descending order of the id string;
\* of two ids made by generate_job_id in different clock seconds the later
\* one comes first; a storage path that does not exist yields the empty list.
C10_ListNewestFirst ==
  last.kind = "list" =>
    LET jobs == last.before
    IN  /\ SeqRange(jobs) = { d \in DirNames(storage) : StartsWith(d, JobPrefix) }
        /\ \A i \in 1..(Len(jobs) - 1) : StrLess(jobs[i + 1], jobs[i])
        /\ \A c1, c2 \in ClockStart..MaxClock : \A u1, u2 \in ShortUuids :
             ( /\ c1 < c2
               /\ generate_job_id(c1, u1) \in SeqRange(jobs)
               /\ generate_job_id(c2, u2) \in SeqRange(jobs) )
             => IndexOf(jobs, generate_job_id(c2, u2)) < IndexOf(jobs, generate_job_id(c1, u1))
        /\ ~storage.exists => jobs = <<>>

\* a listing of jobs made at 00:09:59 and at 00:10:00, two of them in the
\* same second
C10_Witness ==
  /\ last.kind = "list"
  /\ Len(last.before) = 3
  /\ \E u1, u2 \in ShortUuids :
       /\ generate_job_id(ClockStart, u1) \in SeqRange(last.before)
       /\ generate_job_id(ClockStart + 1, u2) \in SeqRange(last.before)


\* ------------------------------------------ saving, loading and enriching
\* save_job_data stopped by an OS error after the directory was made
SaveFails ==
  \E u \in ShortUuids, written \in {0, 1} :
    LET job_id == generate_job_id(clock, u)
        t      == GeneratedTables(<<2, 100, TRUE>>)
    IN  /\ storage' = save_job_data_interrupted(storage, t.products_df, job_id, written)
        /\ last' = [NoOp EXCEPT !.kind = "save_failed", !.job_id = job_id]
        /\ UNCHANGED <<clock, jobFrame>>

\* how enrich is called: with a config that treats every sale, one that
\* treats none, or a config_path that names no file
EnrichCalls == { <<TRUE, TRUE>>, <<TRUE, FALSE>>, <<FALSE, FALSE>> }

\* enrich(config_path, job_info) on a job of a simulation, or on a handle
\* that does not load
Enrich ==
  \E u \in ShortUuids, call \in EnrichCalls :
    \E job_id \in DirNames(storage) \cup {generate_job_id(ClockStart - 1, u)} :
      LET l      == load_job_results(storage, job_id)
          new_id == generate_job_id(clock, u)
          e      == enrich(storage, ConfigOf(call[1]), job_id, new_id, call[2])
      IN  /\ ~l.ok \/ l.products_df.columns = ProductsColumns
          /\ storage' = e.storage
          /\ last' = [ NoOp EXCEPT !.kind = "enrich", !.source = job_id,
                                   !.job_id = IF e.ok THEN new_id ELSE <<>>,
                                   !.fresh = e.ok /\ ~JobExists(storage, new_id),
                                   !.products_df = e.products_df, !.sales_df = e.sales_df,
                                   !.loaded = [l EXCEPT !.ok = e.ok, !.error = e.error] ]
          /\ UNCHANGED <<clock, jobFrame>>

PersistNext ==
  \/ Save
  \/ SaveAs
  \/ SaveFails
  \/ Load
  \/ Enrich

SpecPersist == JobInit /\ [][PersistNext]_vars


\* the job directory exists but a table file is not in it
TableMissing(st, job_id) ==
  /\ JobExists(st, job_id)
  /\ {"products.csv", "sales.csv"} \ DOMAIN st.dirs[job_id] # {}

\* C11: load_job_results fails with one error kind when the job directory
\* is absent and with a different error kind when the directory exists but
\* a table file is absent; in both cases the storage is left as it was.
C11_LoadErrorKinds ==
  [][ last'.kind = "load" =>
        /\ storage' = storage
        /\ ~JobExists(storage, last'.job_id) => ~last'.loaded.ok
        /\ TableMissing(storage, last'.job_id) =>
             /\ ~last'.loaded.ok
             /\ \A j \in StaleIds :
                  ~JobExists(storage, j)
                    => last'.loaded.error # load_job_results(storage, j).error ]_vars

\* C12: a save under job id J (completed or stopped by an error) and an
\* enrich run that saves its result as a new job leave the files of every
\* other job directory as they were; a load changes no directory.
C12_OtherJobsUnchanged ==
  [][ \A d \in DirNames(storage) :
        ( \/ last'.kind = "load"
          \/ /\ last'.kind \in {"save", "save_failed", "enrich"}
             /\ d # last'.job_id )
        => /\ d \in DirNames(storage')
           /\ storage'.dirs[d] = storage.dirs[d] ]_vars

\* an enrich run saved its result under a fresh id next to its source job
\* and a third job
C12_Witness ==
  /\ last.kind = "enrich"
  /\ last.loaded.ok
  /\ last.fresh
  /\ last.source # last.job_id
  /\ Cardinality(DirNames(storage)) = 3


\* ------------------------------------------- registry and backend dispatch
MaxRegistrations == 2

\* names and functions the callers register
RegNames == {"default", "custom"}
CustomFns == {"generate_electronics_only", "generate_books_only"}

\* the RULE block: built-in functions, or a custom function
RuleConfig(custom) ==
  IF custom
  THEN [ CHARACTERISTICS |-> [FUNCTION |-> "custom"], METRICS |-> [FUNCTION |-> "custom"],
         CUSTOM_FUNCTION |-> "custom" ]
  ELSE [ CHARACTERISTICS |-> [FUNCTION |-> "default"], METRICS |-> [FUNCTION |-> "default"] ]

\* a resolved configuration with the given backend keys
ResolvedConfig(keys, custom) ==
  [ k \in keys \cup {"BASELINE"} |->
      CASE k = "RULE"        -> RuleConfig(custom)
        [] k = "SYNTHESIZER" -> [SYNTHESIZER_TYPE |-> "gaussian_copula"]
        [] OTHER             -> [DATE_START |-> "2024-01-01", DATE_END |-> "2024-01-07"] ]

EngInit ==
  /\ rng = 0
  /\ DetIdle
  /\ products = <<>>
  /\ asg = NoCall
  /\ EnrIdle
  /\ JobIdle
  /\ EngIdle
  /\ AuxIdle

\* register(kind, name, fn)
Register ==
  \E kind \in Kinds, name \in RegNames, fn \in CustomFns :
    /\ Len(reglog) < Len(BuiltinLog) + MaxRegistrations
    /\ registry' = register(registry, kind, name, fn)
    /\ reglog' = Append(reglog, <<kind, name, fn>>)
    /\ UNCHANGED <<dispatch, metrics, parsed, engFrame>>

\* get(kind, name)
Get ==
  \E kind \in Kinds, name \in RegNames :
    /\ dispatch' = [ NoDispatch EXCEPT !.op = "get", !.kind = kind, !.name = name,
                                       !.at = Len(reglog),
                                       !.found = get(registry, kind, name) ]
    /\ UNCHANGED <<registry, reglog, metrics, parsed, engFrame>>

\* BackendRegistry.detect_backend(config)
DetectBackend ==
  \E keys \in SUBSET {"RULE", "SYNTHESIZER"}, custom \in BOOLEAN :
    LET config == ResolvedConfig(keys, custom)
    IN  /\ dispatch' = [ NoDispatch EXCEPT !.op = "detect_backend", !.config = config,
                                           !.at = Len(reglog),
                                           !.result = detect_backend(config) ]
        /\ UNCHANGED <<registry, reglog, metrics, parsed, engFrame>>

\* simulate_characteristics(config_path), the top-level dispatcher
SimulateCharacteristics ==
  \E keys \in SUBSET {"RULE", "SYNTHESIZER"}, custom \in BOOLEAN :
    LET config == ResolvedConfig(keys, custom)
    IN  /\ dispatch' = [ NoDispatch EXCEPT !.op = "simulate_characteristics",
                                           !.section = "CHARACTERISTICS",
                                           !.config = config, !.at = Len(reglog),
                                           !.result = simulate_characteristics(registry, config) ]
        /\ UNCHANGED <<registry, reglog, metrics, parsed, engFrame>>

\* simulate_metrics(product_characteristics, config_path), the top-level dispatcher
SimulateMetrics ==
  \E keys \in SUBSET {"RULE", "SYNTHESIZER"}, custom \in BOOLEAN :
    LET config == ResolvedConfig(keys, custom)
    IN  /\ dispatch' = [ NoDispatch EXCEPT !.op = "simulate_metrics",
                                           !.section = "METRICS",
                                           !.config = config, !.at = Len(reglog),
                                           !.result = simulate_metrics(registry, config) ]
        /\ UNCHANGED <<registry, reglog, metrics, parsed, engFrame>>

\* the stages of the simulate workflow: detect_backend, then the backend's
\* simulate_characteristics() or simulate_metrics(products_df)
RunBackend ==
  \E keys \in SUBSET {"RULE", "SYNTHESIZER"}, custom \in BOOLEAN,
     section \in {"CHARACTERISTICS", "METRICS"} :
    LET config == ResolvedConfig(keys, custom)
    IN  /\ dispatch' = [ NoDispatch EXCEPT !.op = "run_backend", !.section = section,
                                           !.config = config, !.at = Len(reglog),
                                           !.result = DetectAndSimulate(registry, config, section) ]
        /\ UNCHANGED <<registry, reglog, metrics, parsed, engFrame>>

EngNext ==
  \/ Register
  \/ Get
  \/ DetectBackend
  \/ SimulateCharacteristics
  \/ SimulateMetrics
  \/ RunBackend

SpecEngine == EngInit /\ [][EngNext]_vars


\* the recognized backend keys the configuration of the last dispatch holds
PresentKeys == { k \in {"RULE", "SYNTHESIZER"} : k \in DOMAIN dispatch.config }

DispatchOps == {"detect_backend", "simulate_characteristics", "simulate_metrics", "run_backend"}

\* C13: when the resolved configuration holds neither RULE nor SYNTHESIZER,
\* detect_backend, the workflow stages built on it and the top-level
\* dispatchers fail with the configuration error, and no backend is
\* constructed and no generation function is called.
C13_NoBackendKeyFails ==
  (dispatch.op \in DispatchOps /\ PresentKeys = {}) =>
    /\ ~dispatch.result.ok
    /\ dispatch.result.error = "ValueError"
    /\ dispatch.result.constructed = <<>>
    /\ dispatch.result.called = <<>>

\* each kind of dispatch has been tried on a configuration without a key
C13_Witness ==
  /\ dispatch.op = "run_backend"
  /\ PresentKeys = {}
  /\ Len(reglog) > Len(BuiltinLog)

\* C14: detect_backend fails and constructs no backend when the
\* configuration holds both RULE and SYNTHESIZER; it constructs a backend
\* only when exactly one recognized key is present, and then the backend
\* registered for that key on the sub-configuration under that key.
C14_AmbiguousBackendFails ==
  dispatch.op = "detect_backend" =>
    /\ Cardinality(PresentKeys) > 1 =>
         /\ ~dispatch.result.ok
         /\ dispatch.result.constructed = <<>>
    /\ dispatch.result.constructed # <<>> =>
         /\ Cardinality(PresentKeys) = 1
         /\ Len(dispatch.result.constructed) = 1
         /\ \A k \in PresentKeys :
              /\ dispatch.result.constructed[1].cls = BackendClass(k)
              /\ dispatch.result.constructed[1].config = dispatch.config[k]

\* the registrations of (kind, name) among the first `at` entries of the log
RegistrationsOf(kind, name, at) ==
  { i \in 1..at : reglog[i][1] = kind /\ reglog[i][2] = name }

\* the function of the most recent of them
LatestOf(kind, name, at) ==
  LET regs == RegistrationsOf(kind, name, at)
  IN  reglog[CHOOSE i \in regs : \A j \in regs : j <= i][3]

\* the lookup agrees with the log of registrations
AgreesWithLog(found, kind, name, at) ==
  IF RegistrationsOf(kind, name, at) = {}
  THEN ~found.ok /\ found.error = "UnknownFunction"
  ELSE found.ok /\ found.fn = LatestOf(kind, name, at)

\* C15: after any sequence of registrations, get(kind, name) returns the
\* function of the most recent registration of (kind, name), whatever was
\* registered under other keys, and fails with UnknownFunction exactly when
\* (kind, name) was never registered; the rule backend calls the function
\* so looked up under the FUNCTION name of its configuration.
C15_LastRegistrationWins ==
  /\ \A kind \in Kinds, name \in RegNames :
       AgreesWithLog(get(registry, kind, name), kind, name, Len(reglog))
  /\ dispatch.op = "get" =>
       AgreesWithLog(dispatch.found, dispatch.kind, dispatch.name, dispatch.at)
  /\ ( /\ dispatch.op = "run_backend"
       /\ dispatch.result.constructed # <<>>
       /\ dispatch.result.constructed[1].cls = "RuleBackend" ) =>
       LET kind == IF dispatch.section = "CHARACTERISTICS" THEN "characteristics" ELSE "metrics"
           name == dispatch.config["RULE"][dispatch.section]["FUNCTION"]
       IN  IF RegistrationsOf(kind, name, dispatch.at) = {}
           THEN /\ ~dispatch.result.ok
                /\ dispatch.result.error = "UnknownFunction"
                /\ dispatch.result.called = <<>>
           ELSE /\ dispatch.result.ok
                /\ Len(dispatch.result.called) = 1
                /\ dispatch.result.called[1].fn = LatestOf(kind, name, dispatch.at)

\* "default" was registered again and the rule backend then called the new
\* function
C15_Witness ==
  /\ dispatch.op = "run_backend"
  /\ dispatch.result.ok
  /\ dispatch.section = "CHARACTERISTICS"
  /\ Cardinality(RegistrationsOf("characteristics", "default", dispatch.at)) = 2
  /\ dispatch.result.called[1].fn \in CustomFns

\* ===================================================================
\* Generation: the rule-based generators called one at a time
\* ===================================================================
genFrame ==
  <<out1, out2, enr1, enr2, asg, pc, cfg, enriched_products, apply_in, factual_sales,
    calls, napply, jobVars, registry, reglog, dispatch, parsed, auxVars>>

GenInit ==
  /\ DetIdle
  /\ EnrIdle
  /\ JobIdle
  /\ EngIdle
  /\ AuxIdle
  /\ rng \in 0..(RngMod - 1)
  /\ products = <<>>
  /\ asg = NoCall

\* products = generate_product_data(n_products=n, seed=seed)
GenerateProducts ==
  \E n \in 0..MaxProducts, seed \in Seeds :
    LET g == generate_product_data(n, seed, rng)
    IN  /\ products' = g.products
        /\ rng' = g.rng
        /\ args' = [args EXCEPT !.n = n, !.seed = seed]
        /\ sales' = <<>>
        /\ metrics' = <<>>
        /\ UNCHANGED genFrame

\* sales = generate_sales_data(products, date_start, date_end, seed, sale_probability)
GenerateSales ==
  \E range \in DateRanges, seed \in Seeds, p \in SaleProbabilities :
    LET g == generate_sales_data(products, FormatDate(range[1]), FormatDate(range[2]),
                                 seed, p, rng)
    IN  /\ sales' = g.sales
        /\ rng' = g.rng
        /\ args' = [args EXCEPT !.range = range, !.seed = seed, !.p = p]
        /\ metrics' = <<>>
        /\ UNCHANGED <<products, genFrame>>

\* metrics = simulate_metrics_rule_based(products, config)
SimulateMetricsRuleBased ==
  \E range \in DateRanges, seed \in Seeds, p \in SaleProbabilities :
    LET g == simulate_metrics_rule_based(products, FormatDate(range[1]),
                                         FormatDate(range[2]), seed, p, rng)
    IN  /\ metrics' = g.rows
        /\ rng' = g.rng
        /\ args' = [args EXCEPT !.range = range, !.seed = seed, !.p = p]
        /\ sales' = <<>>
        /\ UNCHANGED <<products, genFrame>>

GenNext == GenerateProducts \/ GenerateSales \/ SimulateMetricsRuleBased

SpecGen == GenInit /\ [][GenNext]_vars

\* the days of the requested range
DaysOf(range) == range[1]..range[2]

\* C16: every row of generate_sales_data has its date within
\* [date_start, date_end], the product_id of one of the input products, and
\* the price of that product as its unit_price.
C16_RowsReferToInputs ==
  \A k \in 1..Len(sales) :
    /\ ParseDate(sales[k].date) \in DaysOf(args.range)
    /\ \E i \in 1..Len(products) :
         /\ products[i].product_id = sales[k].product_id
         /\ products[i].price = sales[k].unit_price

\* sales of MaxProducts products on every day of the longest range
C16_Witness ==
  /\ Len(products) = MaxProducts
  /\ args.range = <<1, MaxDay>>
  /\ Len(sales) = MaxProducts * MaxDay
  /\ \E k \in 1..Len(sales) : sales[k].product_id = products[MaxProducts].product_id

\* C17: generate_product_data(n, seed) returns exactly n products for every
\* n >= 0 and every seed, no seed included; the product at position i has
\* the id "PROD" followed by i zero-padded to four digits, so the ids are
\* distinct and the same whatever the draws were.
C17_ProductIds ==
  /\ Len(products) = args.n
  /\ \A i \in 1..Len(products) :
       products[i].product_id = <<80, 82, 79, 68>> \o DigitCodes(ZeroPad(i, 4))
  /\ \A i, j \in 1..Len(products) :
       i # j => products[i].product_id # products[j].product_id

\* MaxProducts products generated without a seed
C17_Witness ==
  /\ args.n = MaxProducts
  /\ args.seed = NoSeed
  /\ Len(products) = MaxProducts
  /\ products[MaxProducts].product_id = <<80, 82, 79, 68, 48, 48, 48, 48 + MaxProducts>>

\* position of the product with this id in the input list (0 if none)
PositionOf(prods, id) ==
  IF \E i \in 1..Len(prods) : prods[i].product_id = id
  THEN CHOOSE i \in 1..Len(prods) : prods[i].product_id = id
  ELSE 0

\* row a comes before row b in the order "days ascending, products in input order"
RowBefore(prods, a, b) ==
  \/ ParseDate(a.date) < ParseDate(b.date)
  \/ /\ a.date = b.date
     /\ PositionOf(prods, a.product_id) < PositionOf(prods, b.product_id)

\* what the rule-based sales generator promises of its rows
SaleRows(rows, prods, p) ==
  /\ \A k \in 1..(Len(rows) - 1) : RowBefore(prods, rows[k], rows[k + 1])
  /\ \A k \in 1..Len(rows) :
       /\ rows[k].quantity \in 1..5
       /\ "transaction_id" \in DOMAIN rows[k]
       /\ rows[k].transaction_id = <<84, 88, 78>> \o DigitCodes(ZeroPad(k, 6))
  /\ \A k \in 1..(Len(rows) - 1) :
       StrLess(rows[k].transaction_id, rows[k + 1].transaction_id)
  /\ (p = 0 => rows = <<>>)

\* C18: the rule-based sales generator visits the days in ascending order
\* and, within a day, the products in input order; it emits at most one row
\* per (product, day), and a row only when the occurrence draw succeeds (no
\* zero-quantity row for a non-occurrence); the k-th row has the transaction
\* id "TXN" followed by k zero-padded to six digits, so the ids increase
\* strictly in emission order; every quantity is in 1..5.  Stated for both
\* rule-based generators: generate_sales_data and simulate_metrics_rule_based.
C18_SaleRows ==
  /\ SaleRows(sales, products, args.p)
  /\ SaleRows(metrics, products, args.p)

\* the same, of generate_sales_data alone
GenerateSalesDataRows == SaleRows(sales, products, args.p)

\* rows of simulate_metrics_rule_based for a probability of zero
MetricsRowsWithoutSale ==
  /\ args.p = 0
  /\ metrics # <<>>
  /\ \A k \in 1..Len(metrics) : metrics[k].quantity = 0

\* C19: assign_enrichment called with a fraction below 0 or above 1 fails,
\* for every product list and seed, and returns no assignment.
C19_InvalidFractionFails ==
  (asg.done /\ (asg.fraction < 0 \/ asg.fraction > 100)) =>
    /\ ~asg.ok
    /\ asg.enriched_products = <<>>

\* a fraction above 1 accepted: one product, all of it treated
FractionAboveOneAccepted ==
  /\ asg.done /\ asg.fraction > 100 /\ asg.ok
  /\ Len(products) = 1
  /\ EnrichedCount(asg.enriched_products) = 1

\* a fraction below 0 accepted: nothing treated
FractionBelowZeroAccepted ==
  /\ asg.done /\ asg.fraction < 0 /\ asg.ok
  /\ Len(products) = 1
  /\ EnrichedCount(asg.enriched_products) = 0

\* a fraction outside [0, 1] rejected by random.sample
FractionRejectedBySample ==
  /\ asg.done /\ ~asg.ok /\ asg.error = "ValueError"
  /\ asg.fraction \notin 0..100

\* ===================================================================
\* Effect specifications: parse_effect_spec on every form of EFFECT
\* ===================================================================
\* "quantity_boost", "combined_boost"
FunctionNames == { <<113, 117, 97, 110, 116, 105, 116, 121, 95, 98, 111, 111, 115, 116>>, <<99, 111, 109, 98, 105, 110, 101, 100, 95, 98, 111, 111, 115, 116>> }

\* "my_effects"
CustomModule == <<109, 121, 95, 101, 102, 102, 101, 99, 116, 115>>

\* effect sizes, in hundredths
EffectSizes == {50, 100, -25, 5}

\* what follows the function name in a string that is not "name:size":
\* ":abc", ":" and ":0.5:7"
MalformedTails == { <<58, 97, 98, 99>>, <<58>>, <<58, 48, 46, 53, 58, 55>> }

\* the size as it is written in a configuration: "0.5", "1", "-0.25"
WriteSize(x) ==
  LET mag  == IF x < 0 THEN -x ELSE x
      ip   == DigitCodes(Digits(mag \div 100))
      frac == mag % 100
      fp   == IF frac = 0 THEN <<>>
              ELSE IF frac % 10 = 0 THEN <<46>> \o DigitCodes(Digits(frac \div 10))
              ELSE <<46>> \o DigitCodes(ZeroPad(frac, 2))
  IN  (IF x < 0 THEN <<45>> ELSE <<>>) \o ip \o fp

Pad(text, padded) == IF padded THEN <<32>> \o text \o <<32>> ELSE text

ParamsGiven == PyDict([effect_size |-> PyFloat(50), ramp_days |-> PyFloat(700)])

\* the dict of a structured EFFECT
EffectItems(input) ==
  LET keys == (IF input.module = "absent" THEN {} ELSE {"module"})
                \cup (IF input.function = "absent" THEN {} ELSE {"function"})
                \cup (IF input.params = "absent" THEN {} ELSE {"params"})
  IN  [ key \in keys |->
          IF key = "module"
          THEN PyStr(IF input.module = "custom" THEN CustomModule
                     ELSE EnrichmentImpactLibrary)
          ELSE IF key = "function"
          THEN (IF input.function = "none" THEN PyNone ELSE PyStr(input.name))
          ELSE (IF input.params = "empty" THEN PyDict(<<>>) ELSE ParamsGiven) ]

\* the EFFECT value the input describes
EffectSpecOf(input) ==
  IF input.form = "shorthand"
  THEN PyStr(Pad(input.name, input.padded) \o <<58>> \o Pad(WriteSize(input.size), input.padded))
  ELSE IF input.form = "bare" THEN PyStr(Pad(input.name, input.padded))
  ELSE IF input.form = "malformed" THEN PyStr(input.name \o input.tail)
  ELSE IF input.form = "map" THEN PyDict(EffectItems(input))
  ELSE IF input.form = "NoneType" THEN PyNone
  ELSE IF input.form = "list" THEN PyList
  ELSE PyFloat(input.size)

EffectInputs ==
  { [NoInput EXCEPT !.form = "shorthand", !.name = n, !.padded = b, !.size = x] :
      n \in FunctionNames, b \in BOOLEAN, x \in EffectSizes }
  \cup { [NoInput EXCEPT !.form = "bare", !.name = n, !.padded = b] :
           n \in FunctionNames \cup {<<>>}, b \in BOOLEAN }
  \cup { [NoInput EXCEPT !.form = "malformed", !.name = n, !.tail = t] :
           n \in FunctionNames, t \in MalformedTails }
  \cup { [NoInput EXCEPT !.form = "map", !.module = m, !.function = f, !.params = p] :
           m \in {"absent", "builtin", "custom"}, f \in {"absent", "none"},
           p \in {"absent", "empty", "given"} }
  \cup { [NoInput EXCEPT !.form = "map", !.module = m, !.function = "given", !.params = p,
                         !.name = n] :
           m \in {"absent", "builtin", "custom"}, p \in {"absent", "empty", "given"},
           n \in FunctionNames \cup {<<>>} }
  \cup { [NoInput EXCEPT !.form = f] : f \in {"NoneType", "list", "float"} }

EffectInit ==
  /\ DetIdle
  /\ EnrIdle
  /\ JobIdle
  /\ rng = 0
  /\ products = <<>>
  /\ asg = NoCall
  /\ registry = Builtins
  /\ reglog = BuiltinLog
  /\ dispatch = NoDispatch
  /\ metrics = <<>>
  /\ parsed \in { [NoParse EXCEPT !.input = i] : i \in EffectInputs }
  /\ AuxIdle

\* module_name, function_name, params = parse_effect_spec(effect_spec)
ParseEffectSpec ==
  /\ ~parsed.done
  /\ parsed' = [parsed EXCEPT !.done = TRUE,
                              !.result = parse_effect_spec(EffectSpecOf(parsed.input))]
  /\ UNCHANGED <<rng, detVars, asgVars, enrVars, jobVars, registry, reglog, dispatch, metrics,
               auxVars>>

EffectNext == ParseEffectSpec

SpecEffect == EffectInit /\ [][EffectNext]_vars

\* the module a structured EFFECT names, the built-in one when it names none
ModuleOf(input) ==
  IF input.module = "custom" THEN CustomModule ELSE EnrichmentImpactLibrary

ParamsOf(input) ==
  IF input.params = "given" THEN ParamsGiven ELSE PyDict(<<>>)

\* C20: parse_effect_spec maps "name:size" to (the built-in effect module,
\* name, {effect_size: size}), a bare name to (the built-in effect module,
\* name, {}), and a structured map to (its module, or the built-in one when
\* omitted; its function; its params, or {} when omitted).  It fails if a
\* structured map omits the function name, and if the input is neither a
\* string nor a map.
C20_ParseEffectSpec ==
  parsed.done =>
    LET input == parsed.input
        res   == parsed.result
    IN  /\ input.form = "shorthand" =>
             /\ res.ok
             /\ res.module = PyStr(EnrichmentImpactLibrary)
             /\ res.function = PyStr(input.name)
             /\ res.params = PyDict([effect_size |-> PyFloat(input.size)])
        /\ (input.form = "bare" /\ input.name # <<>>) =>
             /\ res.ok
             /\ res.module = PyStr(EnrichmentImpactLibrary)
             /\ res.function = PyStr(input.name)
             /\ res.params = PyDict(<<>>)
        /\ (input.form = "map" /\ input.function = "given" /\ input.name # <<>>) =>
             /\ res.ok
             /\ res.module = PyStr(ModuleOf(input))
             /\ res.function = PyStr(input.name)
             /\ res.params = ParamsOf(input)
        /\ (input.form = "map" /\ input.function = "absent") =>
             /\ ~res.ok
             /\ res.error = "ValueError"
        /\ input.form \in {"NoneType", "list", "float"} =>
             /\ ~res.ok
             /\ res.error = "ValueError"

\* a padded "name:size" with a negative size, parsed
C20_Witness ==
  /\ parsed.done
  /\ parsed.input.form = "shorthand"
  /\ parsed.input.padded
  /\ parsed.input.size < 0
  /\ parsed.result.ok
  /\ parsed.result.params.items.effect_size.x = parsed.input.size

\* a structured map without module and params, parsed
MapDefaultsApplied ==
  /\ parsed.done
  /\ parsed.input.form = "map"
  /\ parsed.input.module = "absent"
  /\ parsed.input.params = "absent"
  /\ parsed.result.ok
  /\ parsed.result.module = PyStr(EnrichmentImpactLibrary)

\* a structured map without a function name, rejected
MapWithoutFunctionRejected ==
  /\ parsed.done
  /\ parsed.input.form = "map"
  /\ parsed.input.function = "absent"
  /\ ~parsed.result.ok

\* ===================================================================
\* Configuration validation: validate_config on resolved configurations
\* ===================================================================
\* "2024-01-<d>": a January date written without zero padding
ShortDate(d) == <<50, 48, 50, 52, 45, 48, 49, 45>> \o DigitCodes(Digits(d))

\* BASELINE.DATE_START / DATE_END as written in a configuration
BaselineDays == {2, 10, 20}
BaselineDates == { FormatDate(d) : d \in BaselineDays }

\* ENRICHMENT.START_DATE as written in a configuration
StartDays == {1, 2, 10, 15, 20, 25}
ShortStartDays == {2, 5}
StartDates == { FormatDate(d) : d \in StartDays } \cup { ShortDate(d) : d \in ShortStartDays }

\* a section with this field, unless the value is "absent"
Section(field, value) ==
  IF value = <<0>> THEN <<>> ELSE [k \in {field} |-> value]

\* <<0>> stands for a field that is not in the section
Absent == <<0>>

BaselineSections ==
  { Section("DATE_START", ds) @@ Section("DATE_END", de) :
      ds \in BaselineDates \cup {<<>>, Absent}, de \in BaselineDates \cup {<<>>, Absent} }

EnrichmentSections ==
  { Section("START_DATE", sd) : sd \in StartDates \cup {<<>>, Absent} }

\* the configuration with these sections; has[i] tells whether section i is there
ConfigWith(has, baseline, enrichment) ==
  (IF has[1] THEN [k \in {"BASELINE"} |-> baseline] ELSE <<>>)
    @@ (IF has[2] THEN [k \in {"ENRICHMENT"} |-> enrichment] ELSE <<>>)

CfgInit ==
  /\ DetIdle
  /\ EnrIdle
  /\ JobIdle
  /\ EngIdle
  /\ rng = 0
  /\ products = <<>>
  /\ asg = NoCall
  /\ procs = <<>>
  /\ \E has \in [1..2 -> BOOLEAN], b \in BaselineSections, e \in EnrichmentSections :
       validation = [NoValidation EXCEPT !.config = ConfigWith(has, b, e)]

\* validate_config(config)
ValidateConfig ==
  /\ ~validation.done
  /\ LET v == validate_config(validation.config)
     IN  validation' = [validation EXCEPT !.done = TRUE, !.ok = v.ok, !.error = v.error]
  /\ UNCHANGED <<rng, detVars, asgVars, enrVars, jobVars, engVars, procs>>

CfgNext == ValidateConfig

SpecConfig == CfgInit /\ [][CfgNext]_vars

\* the field of the section, <<>> if the section or the field is missing
FieldOf(config, section, field) ==
  IF section \in DOMAIN config /\ field \in DOMAIN config[section]
  THEN config[section][field] ELSE <<>>

\* the enrichment start is a date outside the baseline window
StartOutsideBaseline(config) ==
  LET ds == FieldOf(config, "BASELINE", "DATE_START")
      de == FieldOf(config, "BASELINE", "DATE_END")
      sd == FieldOf(config, "ENRICHMENT", "START_DATE")
  IN  /\ ds # <<>> /\ de # <<>> /\ sd # <<>>
      /\ ~(strptime(ds).day <= strptime(sd).day /\ strptime(sd).day <= strptime(de).day)

MustReject(config) ==
  \/ "BASELINE" \notin DOMAIN config
  \/ FieldOf(config, "BASELINE", "DATE_START") = <<>>
  \/ FieldOf(config, "BASELINE", "DATE_END") = <<>>
  \/ StartOutsideBaseline(config)

\* C21: validate_config rejects every configuration that lacks BASELINE,
\* lacks a non-empty BASELINE.DATE_START or BASELINE.DATE_END, or has a
\* non-empty ENRICHMENT.START_DATE outside [DATE_START, DATE_END]; so an
\* accepted configuration with an enrichment start date has it inside the
\* baseline window.
C21_ValidationRejects ==
  (validation.done /\ MustReject(validation.config)) =>
    (~validation.ok /\ validation.error = "ValueError")

\* every date of the configuration is written "YYYY-MM-DD"
ZeroPadded(config) ==
  \A section \in DOMAIN config : \A field \in DOMAIN config[section] :
    config[section][field] # <<>> => Len(config[section][field]) = 10

\* the same, of configurations whose dates are all zero-padded
ZeroPaddedRejected ==
  (validation.done /\ ZeroPadded(validation.config) /\ MustReject(validation.config)) =>
    (~validation.ok /\ validation.error = "ValueError")

\* a start date before the baseline window, accepted
StartBeforeBaselineAccepted ==
  /\ validation.done /\ validation.ok
  /\ StartOutsideBaseline(validation.config)
  /\ validation.config["ENRICHMENT"]["START_DATE"] = ShortDate(2)
  /\ validation.config["BASELINE"]["DATE_START"] = FormatDate(10)

\* a zero-padded start date after the baseline window, rejected
StartAfterBaselineRejected ==
  /\ validation.done /\ ~validation.ok
  /\ ZeroPadded(validation.config)
  /\ StartOutsideBaseline(validation.config)
  /\ validation.config["ENRICHMENT"]["START_DATE"] = FormatDate(25)

\* the record without its enriched field
WithoutEnriched(product) == [f \in DOMAIN product \ {"enriched"} |-> product[f]]

\* C22: assign_enrichment leaves the caller's product list and every record
\* in it unchanged (no enriched field appears in them); the returned list has
\* the same length and order, every original field equal, and differs only
\* by the added enriched boolean.
C22_InputNotMutated ==
  asg.done =>
    /\ products = asg.input
    /\ \A i \in 1..Len(products) : "enriched" \notin DOMAIN products[i]
    /\ asg.ok =>
         /\ Len(asg.enriched_products) = Len(asg.input)
         /\ \A i \in 1..Len(asg.input) :
              /\ WithoutEnriched(asg.enriched_products[i]) = asg.input[i]
              /\ "enriched" \in DOMAIN asg.enriched_products[i]
              /\ asg.enriched_products[i].enriched \in BOOLEAN

\* a call that tagged some products of a full list and left others untagged
C22_Witness ==
  /\ asg.done /\ asg.ok
  /\ Len(asg.input) = MaxAssignProducts
  /\ \E i, j \in 1..Len(asg.enriched_products) :
       asg.enriched_products[i].enriched /\ ~asg.enriched_products[j].enriched
  /\ products = asg.input

\* ===================================================================
\* One top-level call: simulate_rule_based, baseline part
\* ===================================================================
\* sale_probability: float = 0.7, in hundredths
DefaultSaleProbability == 70

\* products = generate_product_data(n_products=num_products, seed=seed)
\* sales = generate_sales_data(products=products, date_start=date_start,
\*                             date_end=date_end, seed=seed)
simulate_rule_based(num_products, seed, date_start, date_end, r) ==
  LET g == generate_product_data(num_products, seed, r)
      s == generate_sales_data(g.products, date_start, date_end, seed,
                               DefaultSaleProbability, g.rng)
  IN  [products |-> g.products, sales |-> s.sales, after_products |-> g.rng, rng |-> s.rng]

SimInit ==
  /\ EnrIdle
  /\ JobIdle
  /\ EngIdle
  /\ AuxIdle
  /\ rng \in 0..(RngMod - 1)
  /\ args \in [ seed : SeedValues, n : 0..MaxProducts, range : DateRanges,
                p : {DefaultSaleProbability}, fraction : {0} ]
  /\ out1 = NoRun
  /\ out2 = NoRun
  /\ enr1 = NoAssignment
  /\ enr2 = NoAssignment
  /\ products = <<>>
  /\ asg = NoCall

\* products_df, sales_df = simulate_rule_based(config_path)
SimulateRuleBased ==
  /\ ~out1.done
  /\ LET run == simulate_rule_based(args.n, args.seed, FormatDate(args.range[1]),
                                    FormatDate(args.range[2]), rng)
     IN  /\ out1' = [done |-> TRUE, products |-> run.products, sales |-> run.sales]
         /\ rng' = run.rng
  /\ UNCHANGED <<args, out2, enr1, enr2, detFrame>>

SimNext == SimulateRuleBased

SpecSim == SimInit /\ [][SimNext]_vars

\* the sales the generator makes when it goes on drawing where the
\* characteristics draws stopped
ContinuedSales ==
  generate_sales_data(out1.products, FormatDate(args.range[1]), FormatDate(args.range[2]),
                      NoSeed, args.p,
                      generate_product_data(args.n, args.seed, 0).rng).sales

\* the sales the generator makes when it restarts the stream from the seed
RestartedSales ==
  generate_sales_data(out1.products, FormatDate(args.range[1]), FormatDate(args.range[2]),
                      args.seed, args.p, 0).sales

\* C23: within one simulate_rule_based call the random source is seeded
\* once, and the sales generator continues the stream where the
\* characteristics draws stopped instead of restarting it from the seed.
C23_SalesContinueStream ==
  out1.done => out1.sales = ContinuedSales

\* a run whose sales are those of a restarted stream and not of a continued one
SalesRestartStream ==
  /\ out1.done
  /\ Len(out1.products) = MaxProducts
  /\ out1.sales = RestartedSales
  /\ out1.sales # ContinuedSales

\* round(num / den) for num >= 0: to the nearest integer, a half to the even one
PyRound(num, den) ==
  LET q == num \div den
      twice == 2 * (num % den)
  IN  IF twice < den THEN q
      ELSE IF twice > den THEN q + 1
      ELSE IF q % 2 = 0 THEN q ELSE q + 1

\* C24 as stated: for a fraction in [0, 1] the treated set has size
\* round(fraction * |products|), whatever the seed.
C24_SizeIsRounded ==
  (asg.done /\ asg.fraction \in 0..100) =>
    /\ asg.ok
    /\ EnrichedCount(asg.enriched_products) = PyRound(Len(asg.input) * asg.fraction, 100)

\* C24, amended: for a fraction in [0, 1] the treated set has size
\* floor(fraction * |products|); the size is a function of the fraction and
\* the product count alone, the same for every seed and for no seed.
C24_SizeIsFloor ==
  (asg.done /\ asg.fraction \in 0..100) =>
    /\ asg.ok
    /\ EnrichedCount(asg.enriched_products) = (Len(asg.input) * asg.fraction) \div 100
    /\ Cardinality(SeqRange(asg.indices)) = (Len(asg.input) * asg.fraction) \div 100

\* three products, half of them: one treated where rounding would give two
C24_Witness ==
  /\ asg.done /\ asg.ok
  /\ asg.fraction = 50
  /\ Len(asg.input) = 3
  /\ EnrichedCount(asg.enriched_products) = 1
  /\ PyRound(Len(asg.input) * asg.fraction, 100) = 2

\* ===================================================================
\* Two save_job_data calls in progress at once, under different job ids
\* ===================================================================
\* the job ids of the two calls: generated within the same second, or one
\* generated and one given by the caller
IdPairs ==
  { ids \in { <<generate_job_id(ClockStart, u), generate_job_id(ClockStart, v)>> :
                u \in ShortUuids, v \in ShortUuids } : ids[1] # ids[2] }
  \cup { <<generate_job_id(ClockStart, u), c>> : u \in ShortUuids, c \in CustomIds }

ConInit ==
  /\ rng = 0
  /\ DetIdle
  /\ products = <<>>
  /\ asg = NoCall
  /\ EnrIdle
  /\ JobIdle
  /\ EngIdle
  /\ validation = NoValidation
  /\ \E ids \in IdPairs, r1 \in SaveRequests, r2 \in SaveRequests :
       procs = << [pc |-> "mkdir", job_id |-> ids[1], request |-> r1],
                  [pc |-> "mkdir", job_id |-> ids[2], request |-> r2] >>

conFrame == <<clock, rng, detVars, asgVars, enrVars, engVars, validation>>

\* job_path.mkdir(parents=True, exist_ok=True)
MakeDirectory ==
  \E i \in DOMAIN procs :
    /\ procs[i].pc = "mkdir"
    /\ storage' = MakeDir(storage, procs[i].job_id)
    /\ procs' = [procs EXCEPT ![i].pc = "products"]
    /\ UNCHANGED <<last, conFrame>>

\* products_df.to_csv(job_path / "products.csv", index=False)
WriteProducts ==
  \E i \in DOMAIN procs :
    /\ procs[i].pc = "products"
    /\ storage' = WriteFile(storage, procs[i].job_id, "products.csv",
                            to_csv(GeneratedTables(procs[i].request).products_df))
    /\ procs' = [procs EXCEPT ![i].pc = "sales"]
    /\ UNCHANGED <<last, conFrame>>

\* sales_df.to_csv(job_path / "sales.csv", index=False)
WriteSales ==
  \E i \in DOMAIN procs :
    /\ procs[i].pc = "sales"
    /\ storage' = WriteFile(storage, procs[i].job_id, "sales.csv",
                            to_csv(GeneratedTables(procs[i].request).sales_df))
    /\ procs' = [procs EXCEPT ![i].pc = "config"]
    /\ UNCHANGED <<last, conFrame>>

\* if Path(config_path).exists(): shutil.copy2(config_path, job_path / "config.yaml")
CopyConfig ==
  \E i \in DOMAIN procs :
    LET config == GeneratedTables(procs[i].request).config
    IN  /\ procs[i].pc = "config"
        /\ storage' = IF config.file_exists
                      THEN WriteFile(storage, procs[i].job_id, "config.yaml", config.config_path)
                      ELSE storage
        /\ procs' = [procs EXCEPT ![i].pc = "metadata"]
        /\ UNCHANGED <<last, conFrame>>

\* json.dump(metadata, f, indent=2, default=str); return job_info
WriteMetadata ==
  \E i \in DOMAIN procs :
    LET t == GeneratedTables(procs[i].request)
    IN  /\ procs[i].pc = "metadata"
        /\ storage' = WriteFile(storage, procs[i].job_id, "metadata.json",
                                Metadata(t.products_df, t.sales_df, t.config, procs[i].job_id))
        /\ procs' = [procs EXCEPT ![i].pc = "done"]
        /\ UNCHANGED <<last, conFrame>>

AllSaved == procs # <<>> /\ \A i \in DOMAIN procs : procs[i].pc = "done"

\* load_job_results(job_info) of one of the two handles, after both returned
LoadSaved ==
  \E i \in DOMAIN procs :
    LET t == GeneratedTables(procs[i].request)
    IN  /\ AllSaved
        /\ last.kind = "none"
        /\ last' = [ NoOp EXCEPT !.kind = "load", !.job_id = procs[i].job_id,
                                 !.products_df = t.products_df, !.sales_df = t.sales_df,
                                 !.loaded = load_job_results(storage, procs[i].job_id) ]
        /\ UNCHANGED <<storage, procs, conFrame>>

ConNext ==
  \/ MakeDirectory
  \/ WriteProducts
  \/ WriteSales
  \/ CopyConfig
  \/ WriteMetadata
  \/ LoadSaved

SpecConcurrent == ConInit /\ [][ConNext]_vars

\* the directory of call i holds exactly what that call wrote
OwnFiles(i) ==
  LET t == GeneratedTables(procs[i].request)
  IN  /\ procs[i].job_id \in DirNames(storage)
      /\ storage.dirs[procs[i].job_id]
           = JobFiles(NoDirs, t.products_df, t.sales_df, t.config, procs[i].job_id)

\* C25: when two save_job_data calls with different job ids interleave at
\* the granularity of directory creation and single file writes, each job's
\* directory finally holds exactly the products table, sales table and
\* metadata its own call wrote, and load_job_results of each handle returns
\* that job's own tables.
C25_ConcurrentSavesIndependent ==
  /\ AllSaved => \A i \in DOMAIN procs : OwnFiles(i)
  /\ (AllSaved /\ last.kind = "load") =>
       /\ last.loaded.ok
       /\ last.loaded.products_df = last.products_df
       /\ last.loaded.sales_df = last.sales_df

\* the same, the load taken only of tables that both have rows
ConcurrentSavesWithRows ==
  /\ AllSaved => \A i \in DOMAIN procs : OwnFiles(i)
  /\ (AllSaved /\ last.kind = "load" /\ FrameLen(last.sales_df) > 0) =>
       /\ last.loaded.ok
       /\ last.loaded.products_df = last.products_df
       /\ last.loaded.sales_df = last.sales_df

\* both calls wrote tables with rows and one of them was loaded back
BothSavedAndLoaded ==
  /\ AllSaved /\ last.kind = "load" /\ last.loaded.ok
  /\ \A i \in DOMAIN procs : procs[i].request[2] = 100
  /\ FrameLen(last.loaded.sales_df) = 2

\* a job saved without sales, concurrently with another, does not load
SavedWithoutSalesFailsToLoad ==
  /\ AllSaved /\ last.kind = "load" /\ ~last.loaded.ok
  /\ FrameLen(last.sales_df) = 0
  /\ \A i \in DOMAIN procs : OwnFiles(i)

\* ===================================================================
\* Saves one after the other, with any configuration, also onto a job
\* that is already there
\* ===================================================================
\* the backend keys a configuration may hold: both, one or none (the
\* configuration of an enrichment holds IMPACT only)
KeySets == SUBSET {"RULE", "SYNTHESIZER"}

\* a configuration with these backend keys; SEED is missing from the one
\* without a backend key
ConfigWithKeys(keys) ==
  [ seed |-> IF keys = {} THEN NoSeed ELSE IF "RULE" \in keys THEN 1 ELSE 2,
    has_rule |-> "RULE" \in keys, has_synthesizer |-> "SYNTHESIZER" \in keys,
    file_exists |-> "RULE" \in keys, config_path |-> "config.yaml" ]

SaveWithConfig(job_id, request, keys) ==
  LET t == GeneratedTables(request)
      config == ConfigWithKeys(keys)
  IN  /\ storage' = save_job_data(storage, t.products_df, t.sales_df, config, job_id)
      /\ last' = [NoOp EXCEPT !.kind = "save", !.job_id = job_id, !.config = config]
      /\ UNCHANGED <<clock, jobFrame>>

\* save_job_data(products_df, sales_df, config, config_path)
SaveNew ==
  \E request \in SaveRequests, keys \in KeySets, u \in ShortUuids :
    SaveWithConfig(generate_job_id(clock, u), request, keys)

\* save_job_data(products_df, sales_df, config, config_path, job_id=...), the
\* id the caller's own or that of a job saved before
SaveOnto ==
  \E request \in SaveRequests, keys \in KeySets, job_id \in CustomIds \cup DirNames(storage) :
    SaveWithConfig(job_id, request, keys)

MetaNext == SaveNew \/ SaveOnto

SpecMeta == JobInit /\ [][MetaNext]_vars

\* the number of data rows of a stored table
StoredRows(file) == Len(file.lines)

\* job_id and the row counts of the metadata record agree with the directory
MetadataMatchesTables(d) ==
  LET files == storage.dirs[d]
      md    == files["metadata.json"]
  IN  /\ md.job_id = d
      /\ md.num_products = StoredRows(files["products.csv"])
      /\ md.num_sales = StoredRows(files["sales.csv"])

\* the mode of the record names a backend key of this configuration
ModeNamesKeyOf(md, config) ==
  \/ md.mode = "RULE" /\ config.has_rule
  \/ md.mode = "SYNTHESIZER" /\ config.has_synthesizer

\* C26: after any sequence of save_job_data calls made one after the other
\* (repeated saves to one job id included), the metadata record of every job
\* directory is consistent with the tables beside it: its job_id is the
\* directory name, its num_products and num_sales are the row counts of the
\* stored tables, its seed is the SEED of the configuration of the last save
\* and its mode names a backend key present in that configuration.
C26_MetadataConsistent ==
  /\ \A d \in DirNames(storage) :
       /\ MetadataMatchesTables(d)
       /\ storage.dirs[d]["metadata.json"].seed = storage.dirs[d]["metadata.json"].config.seed
       /\ ModeNamesKeyOf(storage.dirs[d]["metadata.json"], storage.dirs[d]["metadata.json"].config)
  /\ last.kind = "save" =>
       /\ storage.dirs[last.job_id]["metadata.json"].seed = last.config.seed
       /\ ModeNamesKeyOf(storage.dirs[last.job_id]["metadata.json"], last.config)

\* the same without the mode
MetadataConsistentButMode ==
  /\ \A d \in DirNames(storage) : MetadataMatchesTables(d)
  /\ last.kind = "save" =>
       /\ storage.dirs[last.job_id]["metadata.json"].seed = last.config.seed
       /\ storage.dirs[last.job_id]["metadata.json"].config = last.config

\* the mode, of configurations that hold a backend key
ModeOfConfigWithKey ==
  (last.kind = "save" /\ (last.config.has_rule \/ last.config.has_synthesizer)) =>
    ModeNamesKeyOf(storage.dirs[last.job_id]["metadata.json"], last.config)

\* a job saved with a configuration without backend key: its mode is SYNTHESIZER
ModeWithoutBackendKey ==
  /\ last.kind = "save"
  /\ ~last.config.has_rule /\ ~last.config.has_synthesizer
  /\ storage.dirs[last.job_id]["metadata.json"].mode = "SYNTHESIZER"

\* a job saved a second time, with other tables and another configuration
SavedTwice ==
  /\ last.kind = "save"
  /\ Cardinality(DirNames(storage)) = 1
  /\ storage.dirs[last.job_id]["metadata.json"].num_sales = 0
  /\ "config.yaml" \in DOMAIN storage.dirs[last.job_id]
  /\ ~last.config.has_rule

\* the baseline sales of the run: generate_sales_data on the generated products
BaselineSales == Pipeline(cfg.n, cfg.seed, 1, LastDay, cfg.p, 0).sales

\* C27: apply_enrichment_to_sales leaves its input unchanged: after the call
\* every row of the input sales list has the field values it had before
\* (treated rows are changed on copies only), so in simulate_rule_based the
\* counterfactual sales and the returned sales table, both the list sales,
\* stay equal to the baseline sales and only rows of the factual sales carry
\* the treatment effect.
C27_InputUnchanged ==
  pc = "applied" =>
    /\ napply = 1 => sales = apply_in.sales
    /\ sales = BaselineSales
    /\ \A i \in 1..Len(sales) :
         factual_sales[i] # sales[i] => sales[i].product_id \in TreatedIds(enriched_products)

C27_Witness ==
  /\ pc = "applied"
  /\ napply = 1
  /\ \E i \in 1..Len(sales) :
       /\ sales[i].product_id \in TreatedIds(enriched_products)
       /\ factual_sales[i].quantity > sales[i].quantity
       /\ sales[i] = BaselineSales[i]

\* an enrich run that loaded its source job and saved its result
EnrichSaved == last.kind = "enrich" /\ last.loaded.ok

\* C28: the enrich workflow, given a source job, saves a new job with an id
\* different from the source's, whose products table equals the products
\* table of the source job and whose sales table is the enriched sales:
\* loading the returned handle yields (source products, enriched sales).
C28_EnrichKeepsProducts ==
  EnrichSaved =>
    /\ last.job_id # last.source
    /\ load_job_results(storage, last.job_id).ok
    /\ load_job_results(storage, last.job_id).products_df = last.loaded.products_df
    /\ load_job_results(storage, last.job_id).sales_df = last.sales_df

\* what the new job holds: the sales table of the source job in the place of
\* the products table, and the enriched sales
EnrichStoresSourceSales ==
  (EnrichSaved /\ last.fresh) =>
    /\ last.job_id # last.source
    /\ load_job_results(storage, last.job_id).ok
    /\ load_job_results(storage, last.job_id).products_df = last.loaded.sales_df
    /\ load_job_results(storage, last.job_id).sales_df = last.sales_df

\* an enrich run saved under a fresh id; the products file of the new job has
\* the columns of a sales table
EnrichedJobWithoutProducts ==
  /\ EnrichSaved /\ last.fresh
  /\ FrameLen(last.sales_df) > 0
  /\ storage.dirs[last.job_id]["products.csv"].header = SalesColumns
  /\ storage.dirs[last.source]["products.csv"].header = ProductsColumns

\* ===================================================================
\* The staged workflow: characteristics, product details, metrics
\* ===================================================================
\* the metadata record of a job of the staged workflow before any stage wrote it
NoStageMetadata ==
  [ has_characteristics |-> FALSE, has_product_details |-> FALSE,
    seed |-> NoSeed, mode |-> "", num_products |-> 0, num_sales |-> 0 ]

StageMetadata(st, job_id) ==
  IF JobExists(st, job_id) /\ "metadata.json" \in DOMAIN st.dirs[job_id]
  THEN st.dirs[job_id]["metadata.json"]
  ELSE NoStageMetadata

\* create_job(config, config_path), the id of the new job already chosen
create_job(st, job_id) == WriteFile(MakeDir(st, job_id), job_id, "metadata.json", NoStageMetadata)

\* save_dataframe(job_info, name, df)
save_dataframe(st, job_id, name, df) == WriteFile(st, job_id, name, to_csv(df))

\* load_dataframe(job_info, name): None (found = FALSE) when the job has no such table
load_dataframe(st, job_id, name) ==
  IF ~JobExists(st, job_id) \/ name \notin DOMAIN st.dirs[job_id]
  THEN [found |-> FALSE, ok |-> FALSE, error |-> "", df |-> NoFrame]
  ELSE LET r == read_csv(st.dirs[job_id][name])
       IN  [found |-> TRUE, ok |-> r.ok, error |-> r.error, df |-> r.df]

\* update_job_metadata(job_info, <key>=True)
update_job_metadata(st, job_id, key) ==
  WriteFile(st, job_id, "metadata.json", [StageMetadata(st, job_id) EXCEPT ![key] = TRUE])

\* save_job_metadata(job_info, config, config_path, num_products=, num_sales=)
save_job_metadata(st, job_id, config, num_products, num_sales) ==
  WriteFile(st, job_id, "metadata.json",
            [ StageMetadata(st, job_id) EXCEPT !.seed = config.seed, !.mode = ModeOf(config),
                                               !.num_products = num_products,
                                               !.num_sales = num_sales ])

\* the resolved configuration as detect_backend sees it: its top-level keys
TopLevel(config) ==
  [ k \in (IF config.has_rule THEN {"RULE"} ELSE {})
            \cup (IF config.has_synthesizer THEN {"SYNTHESIZER"} ELSE {}) |-> <<>> ]

StageFailure(st, error) == [ok |-> FALSE, error |-> error, storage |-> st, job_id |-> <<>>]

\* simulate_characteristics(config_path), the id of the new job already
\* chosen and products_df what the backend returns
simulate_characteristics_job(st, config, job_id, products_df) ==
  LET backend == detect_backend(TopLevel(config))
  IN  IF ~backend.ok THEN StageFailure(st, backend.error)
      ELSE [ ok |-> TRUE, error |-> "", job_id |-> job_id,
             storage |-> update_job_metadata(
                           save_dataframe(create_job(st, job_id), job_id, "products.csv",
                                          products_df),
                           job_id, "has_characteristics") ]

\* detailed_df = backend_fn(products_df): title, description, brand and
\* features beside the columns of the products
DetailColumns == <<"title", "description", "brand", "features">>

simulate_product_details_mock(products_df) ==
  IF FrameLen(products_df) = 0 THEN NoFrame
  ELSE [ columns |-> products_df.columns \o DetailColumns,
         rows |-> [ i \in 1..Len(products_df.rows) |->
                      products_df.rows[i]
                        \o [ c \in 1..Len(DetailColumns) |-> NameCell(DetailColumns[c]) ] ] ]

\* simulate_product_details(job_info, config_path)
simulate_product_details(st, config, job_id) ==
  LET p == load_dataframe(st, job_id, "products.csv")
  IN  IF ~p.found THEN StageFailure(st, "AttributeError")
      ELSE IF ~p.ok THEN StageFailure(st, p.error)
      ELSE [ ok |-> TRUE, error |-> "", job_id |-> job_id,
             storage |-> update_job_metadata(
                           save_dataframe(st, job_id, "products.csv",
                                          simulate_product_details_mock(p.df)),
                           job_id, "has_product_details") ]

\* (mutation) the sales are generated and saved whether or not the job has a
\* products table
simulate_metrics_unchecked(st, config, job_id, sales_df) ==
  LET p == load_dataframe(st, job_id, "products.csv")
      backend == detect_backend(TopLevel(config))
  IN  IF ~backend.ok THEN StageFailure(st, backend.error)
      ELSE [ ok |-> TRUE, error |-> "", job_id |-> job_id,
             storage |-> save_job_metadata(
                           save_dataframe(st, job_id, "sales.csv", sales_df),
                           job_id, config, FrameLen(p.df), FrameLen(sales_df)) ]

\* simulate_metrics(job_info, config_path), sales_df what the backend returns
simulate_metrics_job(st, config, job_id, sales_df) ==
  LET p == load_dataframe(st, job_id, "products.csv")
      backend == detect_backend(TopLevel(config))
  IN  IF ~p.found THEN StageFailure(st, "FileNotFoundError")
      ELSE IF ~p.ok THEN StageFailure(st, p.error)
      ELSE IF ~backend.ok THEN StageFailure(st, backend.error)
      ELSE [ ok |-> TRUE, error |-> "", job_id |-> job_id,
             storage |-> save_job_metadata(
                           save_dataframe(st, job_id, "sales.csv", sales_df),
                           job_id, config, FrameLen(p.df), FrameLen(sales_df)) ]

\* the configuration file of a run: backend keys and PRODUCT_DETAILS
StagedConfig(keys) == [ConfigWithKeys(keys) EXCEPT !.file_exists = TRUE]

\* the job holds this table
HoldsTable(st, job_id, name) == JobExists(st, job_id) /\ name \in DOMAIN st.dirs[job_id]

\* so many jobs are made
MaxStagedJobs == 2

stagedFrame == <<rng, detVars, asgVars, enrVars, engVars, validation>>

Outcome(r) == [NoLoad EXCEPT !.ok = r.ok, !.error = r.error]

\* simulate(config_path) is called
StartSimulate ==
  /\ \A i \in DOMAIN procs : procs[i].pc \in {"done", "failed"}
  /\ Cardinality(DirNames(storage)) < MaxStagedJobs
  /\ \E keys \in KeySets, details \in BOOLEAN, request \in SaveRequests :
       procs' = << [ pc |-> "characteristics", job_id |-> <<>>, created |-> <<>>,
                     keys |-> keys, details |-> details, request |-> request ] >>
  /\ last' = [NoOp EXCEPT !.kind = "simulate"]
  /\ UNCHANGED <<storage, clock, stagedFrame>>

\* job_info = simulate_characteristics(config_path)
StageCharacteristics ==
  /\ procs # <<>>
  /\ procs[1].pc = "characteristics"
  /\ \E u \in ShortUuids :
       LET r == simulate_characteristics_job(storage, StagedConfig(procs[1].keys),
                                             generate_job_id(clock, u),
                                             GeneratedTables(procs[1].request).products_df)
       IN  /\ storage' = r.storage
           /\ procs' = [ procs EXCEPT ![1].job_id = r.job_id, ![1].created = r.job_id,
                           ![1].pc = IF ~r.ok THEN "failed"
                                     ELSE IF procs[1].details THEN "details" ELSE "metrics" ]
           /\ last' = [ NoOp EXCEPT !.kind = "simulate_characteristics", !.job_id = r.job_id,
                                    !.loaded = Outcome(r) ]
  /\ UNCHANGED <<clock, stagedFrame>>

\* if "PRODUCT_DETAILS" in config: job_info = simulate_product_details(job_info, config_path)
StageProductDetails ==
  /\ procs # <<>>
  /\ procs[1].pc = "details"
  /\ LET r == simulate_product_details(storage, StagedConfig(procs[1].keys), procs[1].job_id)
     IN  /\ storage' = r.storage
         /\ procs' = [ procs EXCEPT ![1].job_id = r.job_id,
                         ![1].pc = IF r.ok THEN "metrics" ELSE "failed" ]
         /\ last' = [ NoOp EXCEPT !.kind = "simulate_product_details",
                                  !.job_id = procs[1].job_id, !.loaded = Outcome(r) ]
  /\ UNCHANGED <<clock, stagedFrame>>

\* job_info = simulate_metrics(job_info, config_path); return job_info
StageMetrics ==
  /\ procs # <<>>
  /\ procs[1].pc = "metrics"
  /\ LET r == simulate_metrics_job(storage, StagedConfig(procs[1].keys), procs[1].job_id,
                                   GeneratedTables(procs[1].request).sales_df)
     IN  /\ storage' = r.storage
         /\ procs' = [ procs EXCEPT ![1].job_id = r.job_id,
                         ![1].pc = IF r.ok THEN "done" ELSE "failed" ]
         /\ last' = [ NoOp EXCEPT !.kind = "simulate_metrics", !.job_id = procs[1].job_id,
                                  !.loaded = Outcome(r) ]
  /\ UNCHANGED <<clock, stagedFrame>>

\* a caller's own create_job(config, config_path)
CreateJob ==
  /\ Cardinality(DirNames(storage)) < MaxStagedJobs
  /\ \E u \in ShortUuids :
       /\ storage' = create_job(storage, generate_job_id(clock, u))
       /\ last' = [NoOp EXCEPT !.kind = "create_job", !.job_id = generate_job_id(clock, u)]
  /\ UNCHANGED <<clock, procs, stagedFrame>>

\* a caller's own simulate_metrics(job_info, config_path) with a RULE
\* configuration, on the handle of a job that has no sales yet or on one that
\* names no job
MetricsOnJob ==
  /\ \E job_id \in { d \in DirNames(storage) : ~HoldsTable(storage, d, "sales.csv") } \cup StaleIds,
        request \in SaveRequests :
       LET r == simulate_metrics_job(storage, StagedConfig({"RULE"}), job_id,
                                     GeneratedTables(request).sales_df)
       IN  /\ storage' = r.storage
           /\ last' = [ NoOp EXCEPT !.kind = "simulate_metrics", !.job_id = job_id,
                                    !.loaded = Outcome(r) ]
  /\ UNCHANGED <<clock, procs, stagedFrame>>

StagedNext ==
  \/ StartSimulate
  \/ StageCharacteristics
  \/ StageProductDetails
  \/ StageMetrics
  \/ CreateJob
  \/ MetricsOnJob

SpecStaged == JobInit /\ [][StagedNext]_vars

\* C29: in the staged workflow simulate = simulate_characteristics, then
\* simulate_product_details when PRODUCT_DETAILS is configured, then
\* simulate_metrics, a sales table is only ever written to a job that already
\* holds a products table: simulate_metrics on a job without a products table
\* fails with a not-found error before writing any sales table or metadata,
\* and a successful simulate returns the job handle that
\* simulate_characteristics created, whose job then holds both tables.
C29_SalesOnlyAfterProducts ==
  /\ [](\A d \in DirNames(storage) :
          HoldsTable(storage, d, "sales.csv") => HoldsTable(storage, d, "products.csv"))
  /\ [][ (last'.kind = "simulate_metrics" /\ ~HoldsTable(storage, last'.job_id, "products.csv"))
           => /\ ~last'.loaded.ok
              /\ last'.loaded.error = "FileNotFoundError"
              /\ storage' = storage ]_vars
  /\ []((procs # <<>> /\ procs[1].pc = "done")
          => /\ procs[1].job_id = procs[1].created
             /\ HoldsTable(storage, procs[1].job_id, "products.csv")
             /\ HoldsTable(storage, procs[1].job_id, "sales.csv"))

\* a simulate with product details has returned, and a simulate_metrics call
\* on a job made by create_job alone has failed
C29_Witness ==
  /\ procs # <<>>
  /\ procs[1].pc = "done"
  /\ procs[1].details
  /\ storage.dirs[procs[1].job_id]["metadata.json"].has_product_details
  /\ storage.dirs[procs[1].job_id]["metadata.json"].mode # ""
  /\ \E d \in DirNames(storage) :
       /\ ~HoldsTable(storage, d, "products.csv")
       /\ ~HoldsTable(storage, d, "sales.csv")
       /\ storage.dirs[d]["metadata.json"] = NoStageMetadata

\* simulate_metrics on a job without products table has just failed
MetricsWithoutProductsFailed ==
  /\ last.kind = "simulate_metrics"
  /\ last.job_id \in DirNames(storage)
  /\ ~HoldsTable(storage, last.job_id, "products.csv")
  /\ last.loaded.error = "FileNotFoundError"

\* C30: after any sequence of save_job_data and cleanup_old_jobs operations
\* on one storage path, every job that was saved (under a generated or a
\* caller-supplied id) and not since removed by a cleanup is returned by
\* list_jobs(storage_path).
C30_SavedJobsListed ==
  \A d \in DirNames(storage) : d \in SeqRange(list_jobs(storage))

\* the same of the jobs whose id starts with "job-"
PrefixedJobsListed ==
  \A d \in DirNames(storage) : StartsWith(d, JobPrefix) => d \in SeqRange(list_jobs(storage))

\* a job saved under the caller's id "run" has outlived a cleanup that kept
\* no job, and the listing is empty
UnlistedJobSurvivesCleanup ==
  /\ last.kind = "cleanup"
  /\ last.keep_count = 0
  /\ last.removed # <<>>
  /\ list_jobs(storage) = <<>>
  /\ DirNames(storage) = CustomIds

=============================================================================
